---------------------------- MODULE Spec2Model ----------------------------
(***************************************************************************)
(* State-machine model of the multi-agent orchestration control plane:     *)
(* batch dispatcher, fix loop, review dispatcher, review consolidator and  *)
(* loop runner (src/multi-agent-orchestration/scripts).                    *)
(*                                                                         *)
(* AGENT_STATE.json is the record `file`; a running dispatch_batch call    *)
(* works on its in-memory copy `mem` and writes it back with               *)
(* save_agent_state.  The wrapper tool and the review/assignment LLM are   *)
(* external: their reports are drawn nondeterministically.                 *)
(***************************************************************************)
EXTENDS Integers, Sequences, FiniteSets, TLC

VARIABLES
    plan,      \* parsed task list: dependencies, manifests, optional flags
    file,      \* AGENT_STATE.json as persisted on disk
    mem,       \* in-memory state of the running dispatch_batch call
    db,        \* locals / position of the running dispatch_batch call
    runner,    \* locals / position of the loop runner
    obs,       \* outcome of the last completed operation (return values)
    env,       \* the wrapper's side: reports that deviated from success
    pf         \* inputs and results of the pure-function checks

vars == <<plan, file, mem, db, runner, obs, env, pf>>

-----------------------------------------------------------------------------
(* Bounds of the model *)

MaxIterations == 2      \* largest --max-iterations budget explored
MaxActions == 3         \* LLM-mode actions per orchestrator tick
MaxResultsPerTask == 2  \* review results one invocation reports per task
MaxFaults == 1          \* failed wrapper invocations in one behaviour
MaxFindings == 3        \* cap on the length of review_findings
MaxRuns == 2            \* invocations of the loop runner in one behaviour
MaxAttemptsDrawn == 12  \* largest fix_attempts value given to evaluate_fix_loop_action
MaxFindingsDrawn == 2   \* findings drawn for one task id
MaxSeqIterations == 3   \* largest --max-iterations of the sequential runner
MaxChunks == 2          \* pieces in which the text of one state is written
MaxWrites == 3          \* writes of the state file in one behaviour
MaxFilesChanged == 2    \* files one completed task reports as changed
MaxReady == 10          \* dispatch units ready at once on the wide plan
MaxLongRun == 9         \* --max-iterations of the long deterministic runs
MaxBlockedItems == 2    \* entries of blocked_items in one agent state
MaxWarnings == 4        \* cognitive warnings in the document before a sync

(* Program constants *)

MAX_FIX_ATTEMPTS == 3
ESCALATION_THRESHOLD == 2
MAX_WINDOWS == 9
STAGNATION_LIMIT == 5

-----------------------------------------------------------------------------
(* Task forest.  Ids are the dotted ids of tasks.md in document order;     *)
(* parent_id is the id with its last dot-segment removed.                  *)

TaskOrder == <<"1", "1.1", "1.2", "2", "3">>

NoTask == "-"

TaskIds == {TaskOrder[i] : i \in 1..Len(TaskOrder)}

parent_id(t) ==
    CASE t = "1.1" -> "1"
      [] t = "1.2" -> "1"
      [] OTHER -> NoTask

\* Pass 2 of the parser: subtasks = all tasks whose parent_id is this id
subtasks(t) == {c \in TaskIds : parent_id(c) = t}

Statuses == {"not_started", "in_progress", "pending_review", "under_review",
             "fix_required", "final_review", "completed", "blocked"}

Severities == {"critical", "major", "minor", "none"}

SEVERITY_ORDER == <<"critical", "major", "minor", "none">>

Files == {"x", "y", "z"}

-----------------------------------------------------------------------------
(* Generic helpers *)

Range(seq) == {seq[i] : i \in 1..Len(seq)}

\* the members of S as a sequence in document order
RECURSIVE InOrderFrom(_, _)
InOrderFrom(S, i) ==
    IF i > Len(TaskOrder) THEN <<>>
    ELSE IF TaskOrder[i] \in S
         THEN <<TaskOrder[i]>> \o InOrderFrom(S, i + 1)
         ELSE InOrderFrom(S, i + 1)

InOrder(S) == InOrderFrom(S, 1)

-----------------------------------------------------------------------------
(* spec_parser.py *)

\* expand_dependencies: a dependency on a parent is replaced, recursively,
\* by the parent's subtasks; leaf and unknown ids are kept as they are
RECURSIVE expand_dependencies(_)
expand_dependencies(deps) ==
    UNION { IF subtasks(d) # {}
            THEN expand_dependencies(subtasks(d))
            ELSE {d} : d \in deps }

is_dispatch_unit_every(t) == TRUE

is_dispatch_unit(t) == subtasks(t) # {} \/ parent_id(t) = NoTask

is_leaf_task(t) == subtasks(t) = {}

\* get_dispatchable_units over the task-like views of state `s`
get_dispatchable_units(s, completed_ids) ==
    { t \in TaskIds :
        /\ is_dispatch_unit(t)
        /\ t \notin completed_ids
        /\ s.status[t] = "not_started"
        /\ expand_dependencies(plan.deps[t]) \subseteq completed_ids }

-----------------------------------------------------------------------------
(* fix_loop.py *)

should_enter_fix_loop(severity) == severity \in {"critical", "major"}

\* reverse-dependency map over expanded dependencies: who depends on `dep`
reverse_deps(dep) ==
    {t \in TaskIds : dep \in expand_dependencies(plan.deps[t])}

\* breadth-first traversal of get_all_dependent_task_ids
RECURSIVE bfs_visit(_, _)
bfs_visit(queue, visited) ==
    IF queue \subseteq visited THEN visited
    ELSE bfs_visit(UNION {reverse_deps(c) : c \in queue \ visited},
                   visited \cup queue)

get_all_dependent_task_ids(task_id) ==
    LET seeds == IF task_id \in TaskIds /\ parent_id(task_id) # NoTask
                 THEN {task_id, parent_id(task_id)}
                 ELSE {task_id}
    IN  bfs_visit(seeds, {}) \ seeds

block_dependent_tasks(s, task_id, reason) ==
    LET dependent_ids == get_all_dependent_task_ids(task_id)
        hit == {t \in dependent_ids \cap TaskIds :
                   s.status[t] \notin {"completed", "blocked"}}
    IN  [s EXCEPT
           !.status = [t \in TaskIds |-> IF t \in hit THEN "blocked" ELSE @[t]],
           !.blocked_reason = [t \in TaskIds |-> IF t \in hit THEN reason ELSE @[t]],
           !.blocked_by = [t \in TaskIds |-> IF t \in hit THEN task_id ELSE @[t]],
           !.blocked_items[task_id] = @ + 1]

\* overall severity as enter_fix_loop derives it from the findings
fix_loop_severity(findings) ==
    IF \E i \in 1..Len(findings) : findings[i].severity = "critical" THEN "critical"
    ELSE IF \E i \in 1..Len(findings) : findings[i].severity = "major" THEN "major"
    ELSE "minor"

enter_fix_loop(s, task_id, review_findings) ==
    IF task_id \notin TaskIds THEN s
    ELSE
      LET overall_severity == fix_loop_severity(review_findings)
          s1 == [s EXCEPT
                   !.status[task_id] = "fix_required",
                   !.last_review_severity[task_id] = overall_severity,
                   !.review_history[task_id] =
                       Append(@, [attempt |-> s.fix_attempts[task_id],
                                  severity |-> overall_severity])]
      IN  block_dependent_tasks(s1, task_id, "upstream")

evaluate_fix_loop_action_unbounded(fix_attempts, severity) ==
    IF ~should_enter_fix_loop(severity) THEN "pass"
    ELSE IF fix_attempts >= ESCALATION_THRESHOLD THEN "escalate"
    ELSE "retry"

evaluate_fix_loop_action_late_escalation(fix_attempts, severity) ==
    IF ~should_enter_fix_loop(severity) THEN "pass"
    ELSE IF fix_attempts > MAX_FIX_ATTEMPTS THEN "human"
    ELSE IF fix_attempts > ESCALATION_THRESHOLD THEN "escalate"
    ELSE "retry"

evaluate_fix_loop_action(fix_attempts, severity) ==
    IF ~should_enter_fix_loop(severity) THEN "pass"
    ELSE IF fix_attempts >= MAX_FIX_ATTEMPTS THEN "human"
    ELSE IF fix_attempts >= ESCALATION_THRESHOLD THEN "escalate"
    ELSE "retry"

get_fix_required_tasks(s) == InOrder({t \in TaskIds : s.status[t] = "fix_required"})

on_fix_task_complete(s, task_id) ==
    IF task_id \notin TaskIds THEN s
    ELSE [s EXCEPT !.fix_attempts[task_id] = @ + 1,
                   !.status[task_id] = "pending_review"]

rollback_fix_dispatch_counted(s, task_id) ==
    IF task_id \in TaskIds /\ s.status[task_id] = "in_progress"
    THEN [s EXCEPT !.status[task_id] = "fix_required",
                   !.fix_attempts[task_id] = @ + 1]
    ELSE s

rollback_fix_dispatch(s, task_id) ==
    IF task_id \in TaskIds /\ s.status[task_id] = "in_progress"
    THEN [s EXCEPT !.status[task_id] = "fix_required"]
    ELSE s

unblock_dependent_tasks(s, task_id) ==
    LET hit == {t \in TaskIds : s.blocked_by[t] = task_id}
    IN  [s EXCEPT
           !.status = [t \in TaskIds |-> IF t \in hit THEN "not_started" ELSE @[t]],
           !.blocked_reason = [t \in TaskIds |-> IF t \in hit THEN "" ELSE @[t]],
           !.blocked_by = [t \in TaskIds |-> IF t \in hit THEN NoTask ELSE @[t]],
           !.blocked_items[task_id] = 0]

handle_fix_loop_success(s, task_id) ==
    IF task_id \notin TaskIds THEN s
    ELSE unblock_dependent_tasks([s EXCEPT !.status[task_id] = "final_review"], task_id)

\* overall severity as on_review_complete derives it
review_complete_severity(findings) ==
    IF \E i \in 1..Len(findings) : findings[i].severity = "critical" THEN "critical"
    ELSE IF \E i \in 1..Len(findings) : findings[i].severity = "major" THEN "major"
    ELSE IF findings = <<>> THEN "none" ELSE "minor"

on_review_complete(s, task_id, review_findings) ==
    IF task_id \notin TaskIds THEN s
    ELSE IF should_enter_fix_loop(review_complete_severity(review_findings))
         THEN enter_fix_loop(s, task_id, review_findings)
         ELSE handle_fix_loop_success(s, task_id)

trigger_human_fallback_unrecorded(s, task_id) ==
    IF task_id \notin TaskIds THEN s
    ELSE
      LET s1 == [s EXCEPT
                   !.status[task_id] = "blocked",
                   !.blocked_reason[task_id] = "human_intervention_required"]
      IN  block_dependent_tasks(s1, task_id, "upstream-human")

trigger_human_fallback(s, task_id) ==
    IF task_id \notin TaskIds THEN s
    ELSE
      LET s1 == [s EXCEPT
                   !.status[task_id] = "blocked",
                   !.blocked_reason[task_id] = "human_intervention_required",
                   !.pending_decisions =
                       Append(@, [id |-> "human-fallback", task_id |-> task_id])]
      IN  block_dependent_tasks(s1, task_id, "upstream-human")

\* one iteration of the loop of process_fix_loop: `acc` carries the state
\* and the fix requests built so far
fix_loop_step(acc, task_id) ==
    LET s == acc.state
        severity == IF s.last_review_severity[task_id] = "absent"
                    THEN "major" ELSE s.last_review_severity[task_id]
        action == evaluate_fix_loop_action(s.fix_attempts[task_id], severity)
        use_escalation == action = "escalate"
        owner_agent == s.owner_agent[task_id]
        decision == [id |-> "missing-owner-agent", task_id |-> task_id]
    IN  IF action = "human"
        THEN [acc EXCEPT !.state = trigger_human_fallback(s, task_id)]
        ELSE IF action = "pass" THEN acc
        ELSE IF owner_agent = "" /\ ~use_escalation
        THEN [acc EXCEPT !.state.pending_decisions =
                 IF decision \in Range(@) THEN @ ELSE Append(@, decision)]
        ELSE [state |-> [s EXCEPT
                           !.escalated[task_id] = @ \/ use_escalation,
                           !.status[task_id] = "in_progress"],
              requests |-> Append(acc.requests,
                             [task_id |-> task_id,
                              backend |-> IF use_escalation THEN "codex" ELSE owner_agent,
                              use_escalation |-> use_escalation])]

RECURSIVE fix_loop_fold(_, _)
fix_loop_fold(acc, fix_tasks) ==
    IF fix_tasks = <<>> THEN acc
    ELSE fix_loop_fold(fix_loop_step(acc, Head(fix_tasks)), Tail(fix_tasks))

\* process_fix_loop: the list of fix_required tasks is taken once, up
\* front; each is then handled against the live state
process_fix_loop(s) ==
    fix_loop_fold([state |-> s, requests |-> <<>>], get_fix_required_tasks(s))

-----------------------------------------------------------------------------
(* init_orchestration.py *)

\* the status update_parent_statuses derives from the subtasks' statuses
derive_parent_status(subtask_statuses) ==
    IF \A x \in subtask_statuses : x = "completed" THEN "completed"
    ELSE IF "blocked" \in subtask_statuses THEN "blocked"
    ELSE IF "fix_required" \in subtask_statuses THEN "fix_required"
    ELSE IF subtask_statuses \cap {"in_progress", "pending_review",
                                   "under_review", "final_review"} # {}
         THEN "in_progress"
    ELSE "not_started"

\* the loop of update_parent_statuses, from position i of the task list
\* down to the first task (reverse document order)
RECURSIVE update_parents_from(_, _)
update_parents_from(s, i) ==
    IF i = 0 THEN s
    ELSE LET t == TaskOrder[i]
         IN  IF subtasks(t) = {} THEN update_parents_from(s, i - 1)
             ELSE update_parents_from(
                    [s EXCEPT !.status[t] =
                        derive_parent_status({s.status[c] : c \in subtasks(t)})],
                    i - 1)

update_parent_statuses(s) == update_parents_from(s, Len(TaskOrder))

-----------------------------------------------------------------------------
(* dispatch_batch.py: ready set, conflicts, batches *)

REVIEW_STATES == {"pending_review", "under_review", "final_review"}

get_completed_task_ids_legacy(s, strict) ==
    {t \in TaskIds : s.status[t] \in {"completed"} \cup REVIEW_STATES}

get_completed_task_ids(s, strict) ==
    IF strict
    THEN {t \in TaskIds : s.status[t] = "completed"}
    ELSE {t \in TaskIds : s.status[t] \in {"completed"} \cup REVIEW_STATES}

\* get_dispatchable_units_from_state, as a list in task order
get_dispatchable_units_from_state(s, strict_dependencies) ==
    LET completed == get_completed_task_ids(s, strict_dependencies)
        dispatchable_ids == get_dispatchable_units(s, completed)
    IN  InOrder({t \in dispatchable_ids :
                    /\ t \notin plan.optional
                    /\ s.status[t] = "not_started"})

\* detect_file_conflicts: the unordered pairs whose writes intersect,
\* as the symmetric set conflict_pairs of partition_by_conflicts
conflict_pairs_none(tasks, W) == {}

conflict_pairs(tasks, W) ==
    {p \in Range(tasks) \X Range(tasks) :
        p[1] # p[2] /\ W[p[1]] \cap W[p[2]] # {}}

\* index of the first batch holding no task that conflicts with task_id
first_free_batch(batches, task_id, pairs) ==
    LET free == {b \in 1..Len(batches) :
                    ~\E k \in 1..Len(batches[b]) : <<task_id, batches[b][k]>> \in pairs}
    IN  IF free = {} THEN 0 ELSE CHOOSE b \in free : \A c \in free : b <= c

\* greedy colouring of the write-declaring tasks, in their original order
RECURSIVE colour_write_tasks(_, _, _)
colour_write_tasks(batches, write_tasks, pairs) ==
    IF write_tasks = <<>> THEN batches
    ELSE LET task_id == Head(write_tasks)
             b == first_free_batch(batches, task_id, pairs)
             assigned == UNION {Range(batches[k]) : k \in 1..Len(batches)}
         IN  IF task_id \in assigned
             THEN colour_write_tasks(batches, Tail(write_tasks), pairs)
             ELSE IF b = 0
             THEN colour_write_tasks(Append(batches, <<task_id>>),
                                     Tail(write_tasks), pairs)
             ELSE colour_write_tasks([batches EXCEPT ![b] = Append(@, task_id)],
                                     Tail(write_tasks), pairs)

RECURSIVE singleton_batches(_)
singleton_batches(tasks) ==
    IF tasks = <<>> THEN <<>>
    ELSE <<<<Head(tasks)>>>> \o singleton_batches(Tail(tasks))

\* partition_by_conflicts over the task list `tasks` with manifests W, R
partition_by_conflicts(tasks, W, R) ==
    LET no_manifest_tasks == SelectSeq(tasks, LAMBDA t : W[t] = {} /\ R[t] = {})
        safe_tasks == SelectSeq(tasks, LAMBDA t : ~(W[t] = {} /\ R[t] = {}))
        write_tasks == SelectSeq(safe_tasks, LAMBDA t : W[t] # {})
        read_only_tasks == SelectSeq(safe_tasks, LAMBDA t : W[t] = {})
        coloured == colour_write_tasks(<<>>, write_tasks,
                                       conflict_pairs(write_tasks, W))
        with_reads == IF read_only_tasks = <<>> THEN coloured
                      ELSE IF coloured # <<>>
                           THEN [coloured EXCEPT ![1] = @ \o read_only_tasks]
                           ELSE <<read_only_tasks>>
    IN  with_reads \o singleton_batches(no_manifest_tasks)

\* allocate_windows: the ids that receive a window, at most max_windows
allocate_windows(dispatch_units, max_windows) ==
    {dispatch_units[i] : i \in {k \in 1..Len(dispatch_units) : k <= max_windows}}

apply_window_allocation(s, dispatch_units) ==
    LET window_mapping == allocate_windows(dispatch_units, MAX_WINDOWS)
    IN  [s EXCEPT !.target_window =
            [t \in TaskIds |-> @[t] \/ (t \in Range(dispatch_units)
                                        /\ t \in window_mapping)]]

\* find_missing_dispatch_fields: task id -> list of missing fields
find_missing_dispatch_fields(s, tasks) ==
    [t \in {u \in Range(tasks) :
               /\ is_dispatch_unit(u)
               /\ (s.owner_agent[u] = "" \/ ~s.target_window[u])} |->
        (IF s.owner_agent[t] = "" THEN <<"owner_agent">> ELSE <<>>) \o
        (IF ~s.target_window[t] THEN <<"target_window">> ELSE <<>>)]

-----------------------------------------------------------------------------
(* dispatch_batch.py: reconciliation of an execution report *)

update_task_statuses(s, task_ids, new_status) ==
    [s EXCEPT !.status =
        [t \in TaskIds |-> IF t \in task_ids THEN new_status ELSE @[t]]]

rollback_batch_tasks_all(s, task_ids) ==
    [s EXCEPT !.status = [t \in TaskIds |->
                            IF t \in task_ids THEN "not_started" ELSE @[t]]]

rollback_batch_tasks(s, task_ids) ==
    [s EXCEPT !.status =
        [t \in TaskIds |-> IF t \in task_ids /\ @[t] = "in_progress"
                           THEN "not_started" ELSE @[t]]]

handle_partial_completion(s, dispatch_unit_id, completed_subtasks, failed_subtask) ==
    LET s1 == [s EXCEPT !.status =
                 [t \in TaskIds |-> IF t \in completed_subtasks
                                    THEN "completed" ELSE @[t]]]
        s2 == IF failed_subtask \in TaskIds
              THEN [s1 EXCEPT !.status[failed_subtask] = "blocked",
                              !.blocked_reason[failed_subtask] = "error"]
              ELSE s1
    IN  IF dispatch_unit_id \in TaskIds
        THEN [s2 EXCEPT !.status[dispatch_unit_id] = "blocked",
                        !.blocked_by[dispatch_unit_id] = failed_subtask,
                        !.blocked_reason[dispatch_unit_id] = "error"]
        ELSE s2

\* the body of the loop of process_execution_report for one task result
process_task_result(s, result) ==
    LET task_id == result.task_id
    IN  IF task_id \notin TaskIds THEN s
        ELSE IF result.failed_subtask # NoTask
        THEN handle_partial_completion(s, task_id, result.completed_subtasks,
                                       result.failed_subtask)
        ELSE IF result.status = "completed"
        THEN [s EXCEPT !.status =
                [t \in TaskIds |->
                    IF t = task_id THEN "pending_review"
                    ELSE IF t \in subtasks(task_id) /\ @[t] = "not_started"
                         THEN "pending_review"
                    ELSE @[t]]]
        ELSE IF result.status = "blocked"
        THEN [s EXCEPT !.status[task_id] = "blocked"]
        ELSE s

RECURSIVE process_execution_report(_, _)
process_execution_report(s, task_results) ==
    IF task_results = <<>> THEN s
    ELSE process_execution_report(process_task_result(s, Head(task_results)),
                                  Tail(task_results))

\* the results the wrapper may report for one task of an invocation
ResultsOf(t) ==
    {[task_id |-> t, status |-> st, failed_subtask |-> NoTask,
      completed_subtasks |-> {}] : st \in {"completed", "blocked", "failed"}}
    \cup
    UNION {{[task_id |-> t, status |-> "failed", failed_subtask |-> f,
             completed_subtasks |-> C] : C \in SUBSET (subtasks(t) \ {f})} :
           f \in subtasks(t)}

\* the result lists of one invocation: at most one result per task
RECURSIVE ResultLists(_)
ResultLists(tasks) ==
    IF tasks = <<>> THEN {<<>>}
    ELSE LET rest == ResultLists(Tail(tasks))
         IN  rest \cup {<<r>> \o l : r \in ResultsOf(Head(tasks)), l \in rest}

\* ExecutionReport of invoke_codeagent_wrapper for the tasks of one call
ExecutionReports(tasks) ==
    [success : BOOLEAN, task_results : ResultLists(tasks)]

\* a report is clean when the wrapper succeeded and every task of the
\* invocation completed
clean_report(tasks, report) ==
    /\ report.success
    /\ Len(report.task_results) = Len(tasks)
    /\ \A i \in 1..Len(report.task_results) :
          /\ report.task_results[i].status = "completed"
          /\ report.task_results[i].failed_subtask = NoTask

\* the environment may deviate from clean reports MaxFaults times
may_report(tasks, report) ==
    clean_report(tasks, report) \/ env.faults < MaxFaults

after_report(tasks, report) ==
    [env EXCEPT !.faults = IF clean_report(tasks, report) THEN @ ELSE @ + 1]

\* reconciliation of one batch: dispatch_batch lines 1429-1450
reconcile_batch(s, batch, report) ==
    LET batch_task_ids == Range(batch)
        tasks_with_results ==
            {report.task_results[i].task_id : i \in 1..Len(report.task_results)}
        s1 == IF report.success
              THEN process_execution_report(
                     update_task_statuses(s, batch_task_ids, "in_progress"),
                     report.task_results)
              ELSE rollback_batch_tasks(
                     IF report.task_results # <<>>
                     THEN process_execution_report(
                            update_task_statuses(s, tasks_with_results, "in_progress"),
                            report.task_results)
                     ELSE s,
                     batch_task_ids)
    IN  update_parent_statuses(s1)

\* reconciliation of one fix dispatch: dispatch_batch lines 1291-1305
reconcile_fix(s, task_id, report) ==
    IF report.success
    THEN on_fix_task_complete(process_execution_report(s, report.task_results), task_id)
    ELSE rollback_fix_dispatch(s, task_id)

-----------------------------------------------------------------------------
(* dispatch_reviews.py *)

REVIEW_COUNT_BY_CRITICALITY_single(criticality) == 1

REVIEW_COUNT_BY_CRITICALITY(criticality) ==
    CASE criticality = "standard" -> 1
      [] criticality = "complex" -> 2
      [] criticality = "security-sensitive" -> 2
      [] OTHER -> 1

get_tasks_pending_review_any(s) ==
    InOrder({t \in TaskIds :
        /\ is_dispatch_unit(t)
        /\ IF subtasks(t) # {}
           THEN \E sid \in subtasks(t) : s.status[sid] = "pending_review"
           ELSE s.status[t] = "pending_review"})

get_tasks_pending_review(s) ==
    InOrder({t \in TaskIds :
        /\ is_dispatch_unit(t)
        /\ IF subtasks(t) # {}
           THEN \A sid \in subtasks(t) : s.status[sid] = "pending_review"
           ELSE s.status[t] = "pending_review"})

get_review_count(t) == REVIEW_COUNT_BY_CRITICALITY(plan.criticality[t])

update_task_to_under_review(s, task_ids) ==
    [s EXCEPT !.status =
        [t \in TaskIds |->
            IF t \in task_ids THEN "under_review"
            ELSE IF parent_id(t) \in task_ids /\ @[t] = "pending_review"
                 THEN "under_review"
            ELSE @[t]]]

add_review_findings(s, review_results) ==
    [s EXCEPT !.review_findings =
        [t \in TaskIds |->
            @[t] \o SelectSeq(review_results, LAMBDA f : f.task_id = t)]]

check_all_reviews_complete_more(s, task_id) ==
    Len(s.review_findings[task_id]) > get_review_count(task_id)

check_all_reviews_complete(s, task_id) ==
    Len(s.review_findings[task_id]) >= get_review_count(task_id)

update_completed_reviews_to_final(s) ==
    LET updated == {t \in TaskIds : s.status[t] = "under_review"
                                    /\ check_all_reviews_complete(s, t)}
    IN  [s EXCEPT !.status =
            [t \in TaskIds |->
                IF t \in updated THEN "final_review"
                ELSE IF parent_id(t) \in updated
                        /\ @[t] \in {"under_review", "pending_review"}
                     THEN "final_review"
                ELSE @[t]]]

\* the severities the reviewers report
ReviewSeverities == {"minor", "major"}

\* the review results the wrapper may report for the pending units: up to
\* MaxResultsPerTask findings for each
RECURSIVE ReviewResultLists(_)
ReviewResultLists(tasks) ==
    IF tasks = <<>> THEN {<<>>}
    ELSE LET rest == ReviewResultLists(Tail(tasks))
             one == {<<[task_id |-> Head(tasks), severity |-> v]>> :
                        v \in ReviewSeverities}
             own == {<<>>} \cup one
                    \cup (IF MaxResultsPerTask >= 2
                          THEN {a \o b : a \in one, b \in one} ELSE {})
         IN  {a \o l : a \in own, l \in rest}

ReviewReports(tasks) ==
    [success : BOOLEAN, review_results : ReviewResultLists(tasks)]

\* dispatch_reviews after the wrapper returned `report` for the pending units
reconcile_reviews(s, task_ids, report) ==
    LET tasks_with_results ==
            {report.review_results[i].task_id : i \in 1..Len(report.review_results)}
    IN  IF report.success
        THEN update_completed_reviews_to_final(
               add_review_findings(update_task_to_under_review(s, task_ids),
                                   report.review_results))
        ELSE IF tasks_with_results # {}
        THEN update_completed_reviews_to_final(
               add_review_findings(update_task_to_under_review(s, tasks_with_results),
                                   report.review_results))
        ELSE s

-----------------------------------------------------------------------------
(* consolidate_reviews.py *)

get_tasks_in_final_review(s) ==
    InOrder({t \in TaskIds : s.status[t] = "final_review"})

get_review_findings_for_task(s, task_id) ==
    s.review_findings[task_id]

determine_overall_severity(findings) ==
    LET severities == {findings[i].severity : i \in 1..Len(findings)}
        hits == {k \in 1..Len(SEVERITY_ORDER) : SEVERITY_ORDER[k] \in severities}
    IN  IF hits = {} THEN "none"
        ELSE SEVERITY_ORDER[CHOOSE k \in hits : \A j \in hits : k <= j]

has_existing_final_report_never(s, task_id) == FALSE

has_existing_final_report(s, task_id) ==
    s.final_reports[task_id] # <<>>

add_final_report(s, report) ==
    [s EXCEPT !.final_reports[report.task_id] = Append(@, report)]

update_task_to_completed_self_only(s, task_id) ==
    IF task_id \notin TaskIds THEN s
    ELSE [s EXCEPT !.status[task_id] = "completed"]

update_task_to_completed(s, task_id) ==
    IF task_id \notin TaskIds THEN s
    ELSE [s EXCEPT !.status =
            [t \in TaskIds |-> IF t = task_id \/ t \in subtasks(task_id)
                               THEN "completed" ELSE @[t]]]

\* consolidate_single_task: the new state and the severity of the report
\* returned ("no-report" when None is returned)
consolidate_single_task(s, task_id, auto_complete) ==
    LET findings == get_review_findings_for_task(s, task_id)
        overall == determine_overall_severity(findings)
        report == [task_id |-> task_id, overall_severity |-> overall]
        s1 == add_final_report(s, report)
    IN  IF has_existing_final_report(s, task_id) \/ findings = <<>>
        THEN [state |-> s, report |-> "no-report"]
        ELSE [state |-> IF should_enter_fix_loop(overall)
                        THEN enter_fix_loop(s1, task_id, findings)
                        ELSE IF auto_complete THEN update_task_to_completed(s1, task_id)
                        ELSE s1,
              report |-> overall]

\* the per-task loop of consolidate_reviews; its body is the code of
\* consolidate_single_task
RECURSIVE consolidate_each(_, _, _)
consolidate_each(s, task_ids, auto_complete) ==
    IF task_ids = <<>> THEN s
    ELSE CHOOSE r \in
           {consolidate_each(next, Tail(task_ids), auto_complete) :
               next \in {consolidate_single_task(s, Head(task_ids), auto_complete).state}} :
           TRUE

consolidate_reviews(s, auto_complete) ==
    consolidate_each(s, get_tasks_in_final_review(s), auto_complete)

-----------------------------------------------------------------------------
(* orchestration_loop.py *)

dispatch_units == {t \in TaskIds : is_dispatch_unit(t)}

dispatch_unit_completion_required(s) ==
    <<Cardinality({t \in dispatch_units \ plan.optional : s.status[t] # "completed"}),
      Cardinality(dispatch_units)>>

\* _dispatch_unit_completion: <<incomplete, total>>
dispatch_unit_completion(s) ==
    <<Cardinality({t \in dispatch_units : s.status[t] # "completed"}),
      Cardinality(dispatch_units)>>

pending_decisions(s) == s.pending_decisions

missing_owner_agents(s) ==
    {t \in dispatch_units : t \notin plan.optional /\ s.owner_agent[t] = ""}

exit_code_from_state(s) ==
    LET c == dispatch_unit_completion(s)
    IN  IF pending_decisions(s) # <<>> THEN 2
        ELSE IF c[2] = 0 \/ c[1] = 0 THEN 0
        ELSE 1

\* _apply_assignments for an assignment naming the tasks of `assigned`
apply_assignments(s, assigned) ==
    [s EXCEPT !.owner_agent =
        [t \in TaskIds |-> IF t \in assigned /\ is_dispatch_unit(t)
                           THEN "codex" ELSE @[t]]]

\* _ensure_assignments, the assignment call answering for `assigned`
ensure_assignments(s, assigned) ==
    IF pending_decisions(s) # <<>> THEN s
    ELSE IF missing_owner_agents(s) = {} THEN s
    ELSE apply_assignments(s, assigned)

-----------------------------------------------------------------------------
(* the plans and the state written by init_orchestration *)

NoDeps == [t \in TaskIds |-> {}]

NoFiles == [t \in TaskIds |-> {}]

Criticality == [t \in TaskIds |-> "standard"]

\* the plan: units "1" and "2" are independent, subtask "1.2" depends on
\* "2" and unit "3" on subtask "1.1"; no file manifests
Plans ==
    { [deps |-> [NoDeps EXCEPT !["1.2"] = {"2"}, !["3"] = {"1.1"}],
       optional |-> {}, writes |-> NoFiles, reads |-> NoFiles,
       criticality |-> Criticality] }

\* owner_agent before the first assignment call: unit "3" still lacks one
InitialOwners ==
    [t \in TaskIds |-> IF is_dispatch_unit(t) /\ t # "3" THEN "codex" ELSE ""]

InitialState(owner) ==
    [status |-> [t \in TaskIds |-> "not_started"],
     fix_attempts |-> [t \in TaskIds |-> 0],
     last_review_severity |-> [t \in TaskIds |-> "absent"],
     review_history |-> [t \in TaskIds |-> <<>>],
     blocked_by |-> [t \in TaskIds |-> NoTask],
     blocked_reason |-> [t \in TaskIds |-> ""],
     owner_agent |-> owner,
     target_window |-> [t \in TaskIds |-> FALSE],
     escalated |-> [t \in TaskIds |-> FALSE],
     review_findings |-> [t \in TaskIds |-> <<>>],
     final_reports |-> [t \in TaskIds |-> <<>>],
     blocked_items |-> [t \in TaskIds |-> 0],
     pending_decisions |-> <<>>]

NoReport == [success |-> FALSE, task_results |-> <<>>]

IdleDispatch ==
    [pc |-> "idle", fix_requests |-> <<>>, batches |-> <<>>, phase |-> <<>>,
     reports |-> <<>>, overall_success |-> TRUE, fix_dispatched |-> 0]

NoObs == [op |-> "none", result |-> "none", task_id |-> NoTask,
          invoked |-> {}, mutated |-> FALSE, missing |-> <<>>,
          auto_complete |-> FALSE, fix_invoked |-> {}]

RunnerOff ==
    [pc |-> "off", mode |-> "none", iteration |-> 0, max_iterations |-> 0,
     last_incomplete |-> -1, stagnant_rounds |-> 0, exit_code |-> -1,
     actions_left |-> 0, retried |-> FALSE, runs |-> 0]

NoInput == [tasks |-> <<>>, batches |-> <<>>, ready |-> <<>>, done |-> FALSE,
            arg |-> <<>>, out |-> <<>>]

Init ==
    /\ plan \in Plans
    /\ file = InitialState(InitialOwners)
    /\ mem = file
    /\ db = IdleDispatch
    /\ runner = RunnerOff
    /\ obs = NoObs
    /\ env = [faults |-> 0]
    /\ pf = NoInput

-----------------------------------------------------------------------------
(* dispatch_batch.py: dispatch_batch, one step per wrapper invocation,
   reconciliation and save *)

\* the for loop over the batches: iteration n begins only after the body
\* of every earlier iteration has run to its last statement, the save
batch_may_start_eager(d, n) ==
    \A m \in 1..(n - 1) : d.phase[m] # "queued"

batch_may_start(d, n) ==
    \A m \in 1..(n - 1) : d.phase[m] = "saved"

\* load the state file and run process_fix_loop
DB_Start ==
    /\ db.pc = "idle"
    /\ LET r == process_fix_loop(file)
       IN  /\ mem' = r.state
           /\ db' = [IdleDispatch EXCEPT
                       !.pc = IF r.requests # <<>> THEN "fix_invoke" ELSE "ready",
                       !.fix_requests = r.requests]
    /\ obs' = [NoObs EXCEPT !.op = "dispatch_batch", !.result = "running"]
    /\ UNCHANGED <<plan, env, file, pf>>

\* the task configs of one fix invocation, had all requests been sent at once
fix_configs_all(fix_requests) == fix_requests

\* the task configs of one fix invocation: [fix_config], the next request
fix_configs(fix_requests) == <<Head(fix_requests)>>

\* the task ids handed to the wrapper by the invocation now in flight
wrapper_input ==
    IF db.pc = "fix_wait"
    THEN {fix_configs(db.fix_requests)[i].task_id :
             i \in 1..Len(fix_configs(db.fix_requests))}
    ELSE UNION {Range(db.batches[n]) :
                   n \in {m \in 1..Len(db.batches) : db.phase[m] = "invoked"}}

\* invoke the wrapper for the next fix request
DB_FixInvoke ==
    /\ db.pc = "fix_invoke"
    /\ db' = [db EXCEPT !.pc = "fix_wait"]
    /\ LET sent == {fix_configs(db.fix_requests)[i].task_id :
                       i \in 1..Len(fix_configs(db.fix_requests))}
       IN  obs' = [obs EXCEPT !.invoked = @ \cup sent,
                              !.fix_invoked = @ \cup sent]
    /\ UNCHANGED <<plan, env, file, mem, pf, runner>>

\* the fix invocation returns; after the last one the state is saved
DB_FixReturn ==
    /\ db.pc = "fix_wait"
    /\ LET task_id == Head(db.fix_requests).task_id
           rest == Tail(db.fix_requests)
       IN  \E report \in ExecutionReports(<<task_id>>) :
             LET m == reconcile_fix(mem, task_id, report)
             IN  /\ may_report(<<task_id>>, report)
                 /\ env' = after_report(<<task_id>>, report)
                 /\ mem' = m
                 /\ file' = IF rest = <<>> THEN m ELSE file
                 /\ db' = [db EXCEPT
                             !.pc = IF rest = <<>> THEN "ready" ELSE "fix_invoke",
                             !.fix_requests = rest,
                             !.overall_success = @ /\ report.success,
                             !.fix_dispatched = @ + (IF report.success THEN 1 ELSE 0)]
                 /\ obs' = [obs EXCEPT !.mutated =
                              @ \/ (rest = <<>> /\ m.status # file.status)]
    /\ UNCHANGED <<plan, pf, runner>>

\* select the ready units, allocate windows, validate, partition
DB_Ready ==
    /\ db.pc = "ready"
    /\ LET ready_tasks == get_dispatchable_units_from_state(mem, TRUE)
           windowed == apply_window_allocation(mem, ready_tasks)
           missing_fields == find_missing_dispatch_fields(windowed, ready_tasks)
           batches == partition_by_conflicts(ready_tasks, plan.writes, plan.reads)
           m == update_parent_statuses(mem)
       IN  IF ready_tasks = <<>>
           THEN /\ mem' = m
                /\ file' = m
                /\ db' = IdleDispatch
                /\ obs' = [obs EXCEPT
                             !.result = IF db.overall_success
                                        THEN "no_ready" ELSE "fix_failed",
                             !.mutated = @ \/ m.status # file.status]
           ELSE IF DOMAIN missing_fields # {}
           THEN /\ mem' = file
                /\ file' = file
                /\ db' = IdleDispatch
                /\ obs' = [obs EXCEPT !.result = "missing_fields",
                                      !.missing = missing_fields]
           ELSE /\ mem' = windowed
                /\ file' = file
                /\ db' = [db EXCEPT
                            !.pc = "batches",
                            !.batches = batches,
                            !.phase = [n \in 1..Len(batches) |-> "queued"],
                            !.reports = [n \in 1..Len(batches) |-> NoReport]]
                /\ obs' = obs
    /\ UNCHANGED <<plan, env, pf, runner>>

DB_BatchInvoke ==
    /\ db.pc = "batches"
    /\ \E n \in 1..Len(db.batches) :
          /\ db.phase[n] = "queued"
          /\ batch_may_start(db, n)
          /\ db' = [db EXCEPT !.phase[n] = "invoked"]
          /\ obs' = [obs EXCEPT !.invoked = @ \cup Range(db.batches[n])]
    /\ UNCHANGED <<plan, env, file, mem, pf, runner>>

DB_BatchReturn ==
    /\ db.pc = "batches"
    /\ \E n \in 1..Len(db.batches) :
          /\ db.phase[n] = "invoked"
          /\ \E report \in ExecutionReports(db.batches[n]) :
                /\ may_report(db.batches[n], report)
                /\ env' = after_report(db.batches[n], report)
                /\ db' = [db EXCEPT !.phase[n] = "returned", !.reports[n] = report]
    /\ UNCHANGED <<plan, file, mem, pf, runner, obs>>

DB_BatchReconcile ==
    /\ db.pc = "batches"
    /\ \E n \in 1..Len(db.batches) :
          /\ db.phase[n] = "returned"
          /\ mem' = reconcile_batch(mem, db.batches[n], db.reports[n])
          /\ db' = [db EXCEPT !.phase[n] = "reconciled",
                              !.reports[n] = NoReport,
                              !.overall_success = @ /\ db.reports[n].success]
    /\ UNCHANGED <<plan, env, file, pf, runner, obs>>

DB_BatchSave ==
    /\ db.pc = "batches"
    /\ \E n \in 1..Len(db.batches) :
          /\ db.phase[n] = "reconciled"
          /\ file' = mem
          /\ db' = [db EXCEPT !.phase[n] = "saved"]
          /\ obs' = [obs EXCEPT !.mutated = @ \/ mem.status # file.status]
    /\ UNCHANGED <<plan, env, mem, pf, runner>>

\* every batch is done: build the DispatchResult and return
DB_Finish ==
    /\ db.pc = "batches"
    /\ \A n \in 1..Len(db.batches) : db.phase[n] = "saved"
    /\ db' = IdleDispatch
    /\ obs' = [obs EXCEPT !.result = IF db.overall_success
                                     THEN "dispatched" ELSE "partial_failed"]
    /\ UNCHANGED <<plan, env, file, mem, pf, runner>>

DB_Step ==
    \/ DB_FixInvoke
    \/ DB_FixReturn
    \/ DB_Ready
    \/ DB_BatchInvoke
    \/ DB_BatchReturn
    \/ DB_BatchReconcile
    \/ DB_BatchSave
    \/ DB_Finish

-----------------------------------------------------------------------------
(* the other operations on the state file *)

RECURSIVE SumOver(_, _)
SumOver(f, S) ==
    IF S = {} THEN 0
    ELSE LET x == CHOOSE y \in S : TRUE IN f[x] + SumOver(f, S \ {x})

\* the length of the review_findings list
findings_count(s) ==
    SumOver([t \in TaskIds |-> Len(s.review_findings[t])], TaskIds)

\* dispatch_reviews: load, one wrapper invocation, reconcile, save; the
\* wrapper answers with one of the reports `answers` for the pending units
DR_RunWith(answers) ==
    /\ db.pc = "idle"
    /\ LET pending_tasks == get_tasks_pending_review(file)
       IN  IF pending_tasks = <<>>
           THEN /\ file' = file
                /\ env' = env
                /\ obs' = [NoObs EXCEPT !.op = "dispatch_reviews",
                                        !.result = "no_pending"]
           ELSE \E report \in answers :
                  /\ findings_count(file) + Len(report.review_results)
                        <= MaxFindings
                  /\ report.success \/ env.faults < MaxFaults
                  /\ env' = [env EXCEPT !.faults =
                                IF report.success THEN @ ELSE @ + 1]
                  /\ file' = reconcile_reviews(file, Range(pending_tasks), report)
                  /\ obs' = [NoObs EXCEPT
                               !.op = "dispatch_reviews",
                               !.result = IF report.success THEN "reviewed"
                                          ELSE "review_failed",
                               !.invoked = Range(pending_tasks)]
    /\ mem' = file'
    /\ UNCHANGED <<plan, db, pf>>

DR_Run == DR_RunWith(ReviewReports(get_tasks_pending_review(file)))

\* consolidate_reviews with task_ids = None
CR_Run(auto_complete) ==
    /\ db.pc = "idle"
    /\ file' = consolidate_reviews(file, auto_complete)
    /\ mem' = file'
    /\ obs' = [NoObs EXCEPT !.op = "consolidate_reviews",
                            !.result = "consolidated",
                            !.auto_complete = auto_complete]
    /\ UNCHANGED <<plan, env, db, pf>>

DispatchBatch == runner.pc = "off" /\ DB_Start /\ UNCHANGED runner

DispatchReviews == runner.pc = "off" /\ DR_Run /\ UNCHANGED runner

ConsolidateReviews ==
    runner.pc = "off" /\ CR_Run(TRUE) /\ UNCHANGED runner

\* consolidate_single_task called on the state by an embedding caller
ConsolidateSingleTask ==
    /\ runner.pc = "off"
    /\ db.pc = "idle"
    /\ \E task_id \in dispatch_units, auto_complete \in BOOLEAN :
          LET r == consolidate_single_task(file, task_id, auto_complete)
          IN  /\ file' = r.state
              /\ obs' = [NoObs EXCEPT
                           !.op = "consolidate_single_task",
                           !.result = r.report,
                           !.task_id = task_id,
                           !.auto_complete = auto_complete]
    /\ mem' = file'
    /\ UNCHANGED <<plan, env, db, pf, runner>>

\* on_review_complete called for the re-review of a unit that has been
\* through a fix, with that review's finding
OnReviewComplete ==
    /\ runner.pc = "off"
    /\ db.pc = "idle"
    /\ \E task_id \in dispatch_units, v \in ReviewSeverities :
          /\ file.status[task_id] \in {"under_review", "final_review"}
          /\ file.fix_attempts[task_id] > 0
          /\ file' = on_review_complete(file, task_id,
                        <<[task_id |-> task_id, severity |-> v]>>)
          /\ obs' = [NoObs EXCEPT !.op = "on_review_complete",
                                  !.task_id = task_id]
    /\ mem' = file'
    /\ UNCHANGED <<plan, env, db, pf, runner>>

\* _apply_assignments with an assignment for some units lacking an owner
AssignDispatch ==
    /\ runner.pc = "off"
    /\ db.pc = "idle"
    /\ \E assigned \in SUBSET missing_owner_agents(file) :
          /\ assigned # {}
          /\ file' = apply_assignments(file, assigned)
    /\ mem' = file'
    /\ obs' = [NoObs EXCEPT !.op = "assign_dispatch"]
    /\ UNCHANGED <<plan, env, db, pf, runner>>

Next ==
    \/ DispatchBatch
    \/ DB_Step
    \/ DispatchReviews
    \/ ConsolidateReviews
    \/ ConsolidateSingleTask
    \/ OnReviewComplete
    \/ AssignDispatch

Spec == Init /\ [][Next]_vars

-----------------------------------------------------------------------------
(* orchestration_loop.py: the loop runner on an existing state file *)

\* the state file of a run stopped after three fixes of unit "2" were
\* each re-reviewed as major: "1" is completed, "3" waits for an owner
ExhaustedFixState ==
    [InitialState(InitialOwners) EXCEPT
        !.status = [t \in TaskIds |->
                      IF t = "2" THEN "fix_required"
                      ELSE IF t = "3" THEN "not_started" ELSE "completed"],
        !.fix_attempts["2"] = 3,
        !.last_review_severity["2"] = "major",
        !.review_history["2"] =
            [a \in 1..4 |-> [severity |-> "major", attempt |-> a - 1]],
        !.blocked_items["2"] = 4,
        !.escalated["2"] = TRUE,
        !.target_window["1"] = TRUE,
        !.target_window["2"] = TRUE,
        !.review_findings["1"] = <<[severity |-> "minor", task_id |-> "1"]>>,
        !.review_findings["2"] = <<[severity |-> "major", task_id |-> "2"]>>,
        !.final_reports["1"] = <<[task_id |-> "1", overall_severity |-> "minor"]>>,
        !.final_reports["2"] = <<[task_id |-> "2", overall_severity |-> "major"]>>]

\* the state files the runner is started on with --state
ResumeStates == {InitialState(InitialOwners), ExhaustedFixState}

InitLoop ==
    /\ plan \in Plans
    /\ file \in ResumeStates
    /\ mem = file
    /\ db = IdleDispatch
    /\ runner = RunnerOff
    /\ obs = NoObs
    /\ env = [faults |-> 0]
    /\ pf = NoInput

returned(r, code) == [r EXCEPT !.pc = "done", !.exit_code = code]

\* main: parse --mode and --max-iterations and enter the loop function;
\* run_loop_deterministic begins with _ensure_assignments
Run_Start ==
    /\ runner.pc \in {"off", "done"}
    /\ runner.runs < MaxRuns
    /\ db.pc = "idle"
    /\ \E mode \in {"deterministic", "llm"},
          max_iterations \in 0..MaxIterations,
          assigned \in SUBSET missing_owner_agents(file) :
          /\ mode = "llm" => assigned = {}
          /\ file' = IF mode = "deterministic"
                     THEN ensure_assignments(file, assigned) ELSE file
          /\ runner' = [RunnerOff EXCEPT !.pc = "iter_top",
                                         !.mode = mode,
                                         !.max_iterations = max_iterations,
                                         !.runs = runner.runs + 1]
    /\ mem' = file'
    /\ obs' = NoObs
    /\ UNCHANGED <<plan, env, db, pf>>

\* run_loop_deterministic: the head of the for loop
Det_IterTop ==
    /\ runner.pc = "iter_top"
    /\ runner.mode = "deterministic"
    /\ IF runner.iteration >= runner.max_iterations
       THEN runner' = returned(runner, 1) /\ file' = file
       ELSE IF pending_decisions(file) # <<>>
       THEN /\ runner' = returned([runner EXCEPT !.iteration = @ + 1], 2)
            /\ file' = file
       ELSE \E assigned \in SUBSET missing_owner_agents(file) :
              /\ file' = ensure_assignments(file, assigned)
              /\ runner' = [runner EXCEPT !.pc = "call_dispatch",
                                          !.iteration = @ + 1,
                                          !.retried = FALSE]
    /\ mem' = file'
    /\ UNCHANGED <<plan, env, db, pf, obs>>

\* the call of dispatch_batch.py
Det_CallDispatch ==
    /\ runner.pc = "call_dispatch"
    /\ DB_Start
    /\ runner' = [runner EXCEPT !.pc = "dispatching"]

\* dispatch_batch reported missing dispatch fields: ensure assignments
\* and call it once more
Det_Retry ==
    /\ runner.pc = "dispatching"
    /\ db.pc = "idle"
    /\ obs.result = "missing_fields"
    /\ ~runner.retried
    /\ \E assigned \in SUBSET missing_owner_agents(file) :
          file' = ensure_assignments(file, assigned)
    /\ mem' = file'
    /\ runner' = [runner EXCEPT !.pc = "call_dispatch", !.retried = TRUE]
    /\ UNCHANGED <<plan, env, db, pf, obs>>

\* the call of dispatch_reviews.py
Det_Reviews ==
    /\ runner.pc = "dispatching"
    /\ db.pc = "idle"
    /\ obs.result # "missing_fields" \/ runner.retried
    /\ DR_Run
    /\ runner' = [runner EXCEPT !.pc = "consolidate"]

\* the call of consolidate_reviews.py
Det_Consolidate ==
    /\ runner.pc = "consolidate"
    /\ CR_Run(TRUE)
    /\ runner' = [runner EXCEPT !.pc = "check"]

stagnant_rounds_after_never_reset(r, incomplete) ==
    IF r.last_incomplete # -1 /\ incomplete >= r.last_incomplete
    THEN r.stagnant_rounds + 1 ELSE r.stagnant_rounds

\* the stagnation count after an iteration that ended with `incomplete`
\* incomplete units; last_incomplete is -1 (None) in the first iteration
stagnant_rounds_after(r, incomplete) ==
    IF r.last_incomplete # -1 /\ incomplete >= r.last_incomplete
    THEN r.stagnant_rounds + 1 ELSE 0

\* after sync_pulse: pending decisions, completion, stagnation
Det_Check ==
    /\ runner.pc = "check"
    /\ LET incomplete == dispatch_unit_completion(file)[1]
           total == dispatch_unit_completion(file)[2]
           stagnant == stagnant_rounds_after(runner, incomplete)
       IN  runner' =
             IF pending_decisions(file) # <<>> THEN returned(runner, 2)
             ELSE IF total = 0 \/ incomplete = 0 THEN returned(runner, 0)
             ELSE IF stagnant >= STAGNATION_LIMIT
             THEN returned([runner EXCEPT !.stagnant_rounds = stagnant,
                                          !.last_incomplete = incomplete], 1)
             ELSE [runner EXCEPT !.pc = "iter_top",
                                 !.stagnant_rounds = stagnant,
                                 !.last_incomplete = incomplete]
    /\ UNCHANGED <<plan, env, db, pf, obs, file, mem>>

\* run_loop_llm: the head of the for loop and the orchestrator's decision,
\* COMPLETE or CONTINUE with a list of k actions
LLM_IterTop ==
    /\ runner.pc = "iter_top"
    /\ runner.mode = "llm"
    /\ IF runner.iteration >= runner.max_iterations
       THEN runner' = returned(runner, 1)
       ELSE IF pending_decisions(file) # <<>>
       THEN runner' = returned([runner EXCEPT !.iteration = @ + 1], 2)
       ELSE \/ runner' = returned([runner EXCEPT !.iteration = @ + 1],
                                  exit_code_from_state(file))
            \/ \E k \in 0..MaxActions :
                  runner' = [runner EXCEPT !.pc = "actions",
                                           !.iteration = @ + 1,
                                           !.actions_left = k]
    /\ UNCHANGED <<plan, env, db, pf, obs, file, mem>>

LLM_Halt ==
    /\ runner.pc = "actions"
    /\ runner.actions_left > 0
    /\ db.pc = "idle"
    /\ runner' = returned(runner, exit_code_from_state(file))
    /\ UNCHANGED <<plan, env, db, pf, obs, file, mem>>

LLM_AssignDispatch ==
    /\ runner.pc = "actions"
    /\ runner.actions_left > 0
    /\ db.pc = "idle"
    /\ \E assigned \in SUBSET missing_owner_agents(file) :
          /\ assigned # {}
          /\ file' = apply_assignments(file, assigned)
    /\ mem' = file'
    /\ runner' = [runner EXCEPT !.actions_left = @ - 1]
    /\ UNCHANGED <<plan, env, db, pf, obs>>

LLM_DispatchBatch ==
    /\ runner.pc = "actions"
    /\ runner.actions_left > 0
    /\ DB_Start
    /\ runner' = [runner EXCEPT !.actions_left = @ - 1]

LLM_DispatchReviews ==
    /\ runner.pc = "actions"
    /\ runner.actions_left > 0
    /\ DR_Run
    /\ runner' = [runner EXCEPT !.actions_left = @ - 1]

LLM_ConsolidateReviews ==
    /\ runner.pc = "actions"
    /\ runner.actions_left > 0
    /\ CR_Run(TRUE)
    /\ runner' = [runner EXCEPT !.actions_left = @ - 1]

\* sync_pulse reads the state file and writes the pulse document only
LLM_SyncPulse ==
    /\ runner.pc = "actions"
    /\ runner.actions_left > 0
    /\ db.pc = "idle"
    /\ runner' = [runner EXCEPT !.actions_left = @ - 1]
    /\ UNCHANGED <<plan, env, db, pf, obs, file, mem>>

\* after the last action: pending decisions and completion
LLM_EndIteration ==
    /\ runner.pc = "actions"
    /\ runner.actions_left = 0
    /\ db.pc = "idle"
    /\ LET incomplete == dispatch_unit_completion(file)[1]
           total == dispatch_unit_completion(file)[2]
       IN  runner' =
             IF pending_decisions(file) # <<>> THEN returned(runner, 2)
             ELSE IF total = 0 \/ incomplete = 0 THEN returned(runner, 0)
             ELSE [runner EXCEPT !.pc = "iter_top"]
    /\ UNCHANGED <<plan, env, db, pf, obs, file, mem>>

NextLoop ==
    \/ Run_Start
    \/ Det_IterTop
    \/ Det_CallDispatch
    \/ Det_Retry
    \/ Det_Reviews
    \/ Det_Consolidate
    \/ Det_Check
    \/ LLM_IterTop
    \/ LLM_Halt
    \/ LLM_AssignDispatch
    \/ LLM_DispatchBatch
    \/ LLM_DispatchReviews
    \/ LLM_ConsolidateReviews
    \/ LLM_SyncPulse
    \/ LLM_EndIteration
    \/ DB_Step

SpecLoop == InitLoop /\ [][NextLoop]_vars

-----------------------------------------------------------------------------
(* partition_by_conflicts on drawn candidate lists and manifests *)

\* candidate lists: the dispatch units in any order, without repetition
CandidateLists ==
    {q \in UNION {[1..k -> dispatch_units] : k \in 0..Cardinality(dispatch_units)} :
        \A i, j \in 1..Len(q) : i # j => q[i] # q[j]}

\* manifests of the dispatch units; subtasks carry none
Manifests(choices) ==
    {m \in [TaskIds -> choices] : \A t \in TaskIds \ dispatch_units : m[t] = {}}

InitPartition ==
    /\ \E w \in Manifests(SUBSET Files), r \in Manifests({{}, {"x"}}) :
          plan = [deps |-> NoDeps, optional |-> {}, writes |-> w, reads |-> r,
                  criticality |-> Criticality]
    /\ \E q \in CandidateLists : pf = [NoInput EXCEPT !.tasks = q]
    /\ file = InitialState(InitialOwners)
    /\ mem = file
    /\ db = IdleDispatch
    /\ runner = RunnerOff
    /\ obs = NoObs
    /\ env = [faults |-> 0]

Partition ==
    /\ ~pf.done
    /\ pf' = [pf EXCEPT
                !.batches = partition_by_conflicts(pf.tasks, plan.writes, plan.reads),
                !.done = TRUE]
    /\ UNCHANGED <<plan, file, mem, db, runner, obs, env>>

SpecPartition == InitPartition /\ [][Partition]_vars

\* C3: no batch returned by partition_by_conflicts holds two distinct tasks
\* whose writes share a file.
C3_NoWriteConflictInBatch ==
    pf.done =>
        \A n \in 1..Len(pf.batches) :
            \A a, b \in Range(pf.batches[n]) :
                a # b => plan.writes[a] \cap plan.writes[b] = {}

\* the partition of A writing {x}, B writing {x, y} and C writing {z}:
\* A and B are apart and C shares a batch with one of them
C3_Witness ==
    /\ pf.done
    /\ pf.tasks = <<"1", "2", "3">>
    /\ plan.writes["1"] = {"x"}
    /\ plan.writes["2"] = {"x", "y"}
    /\ plan.writes["3"] = {"z"}
    /\ Len(pf.batches) = 2
    /\ \E n \in 1..Len(pf.batches) :
          "3" \in Range(pf.batches[n]) /\ Len(pf.batches[n]) = 2

-----------------------------------------------------------------------------
(* get_dispatchable_units_from_state on drawn task statuses *)

InitReady ==
    /\ \E d \in {[NoDeps EXCEPT !["1.2"] = {"2"}, !["3"] = {"2"}],
                 [NoDeps EXCEPT !["2"] = {"1.1"}, !["3"] = {"1"}]},
          o \in {{}, {"3"}} :
          plan = [deps |-> d, optional |-> o, writes |-> NoFiles,
                  reads |-> NoFiles, criticality |-> Criticality]
    /\ \E st \in [TaskIds -> Statuses] :
          file = [InitialState(InitialOwners) EXCEPT !.status = st]
    /\ mem = file
    /\ db = IdleDispatch
    /\ runner = RunnerOff
    /\ obs = NoObs
    /\ env = [faults |-> 0]
    /\ pf = NoInput

SelectReady ==
    /\ ~pf.done
    /\ pf' = [pf EXCEPT !.ready = get_dispatchable_units_from_state(file, TRUE),
                        !.done = TRUE]
    /\ UNCHANGED <<plan, file, mem, db, runner, obs, env>>

SpecReady == InitReady /\ [][SelectReady]_vars

\* C2: every unit get_dispatchable_units_from_state returns in strict mode
\* is a not_started, non-optional dispatch unit whose expanded dependencies
\* are all exactly completed.
C2_StrictReadyUnits ==
    pf.done =>
        \A i \in 1..Len(pf.ready) :
            LET u == pf.ready[i]
            IN  /\ is_dispatch_unit(u)
                /\ file.status[u] = "not_started"
                /\ u \notin plan.optional
                /\ \A d \in expand_dependencies(plan.deps[u]) :
                      file.status[d] = "completed"

\* a unit is held back because a dependency is only pending_review, while
\* another unit is returned
C2_Witness ==
    /\ pf.done
    /\ pf.ready # <<>>
    /\ \E u \in dispatch_units \ Range(pf.ready) :
          /\ file.status[u] = "not_started"
          /\ u \notin plan.optional
          /\ \E d \in expand_dependencies(plan.deps[u]) :
                file.status[d] = "pending_review"
          /\ \A d \in expand_dependencies(plan.deps[u]) :
                file.status[d] \in {"completed", "pending_review"}

-----------------------------------------------------------------------------
(* Properties of the dispatch / review / consolidation ticks *)

\* the tasks a dispatched unit starts: the unit and the subtasks it carries
started_with(u) == {u} \cup subtasks(u)

\* C1: when a batch of new work is handed to the wrapper, every task it
\* starts - each dispatched unit and each subtask executed inside it - has
\* all of its upstream dependencies outside the unit at status completed.
C1_NoStartBeforeUpstreamCompleted ==
    \A n \in 1..Len(db.batches) :
        db.phase[n] = "invoked" =>
            \A u \in Range(db.batches[n]) :
                \A t \in started_with(u) :
                    \A d \in expand_dependencies(plan.deps[t]) \ started_with(u) :
                        mem.status[d] = "completed"

\* C4: fix_attempts never exceeds MAX_FIX_ATTEMPTS, no fix request is ever
\* built for a task that already has MAX_FIX_ATTEMPTS completed attempts,
\* and a dispatch_batch call that finds such a task in fix_required blocks
\* it and records a human-fallback decision for it.
C4_FixAttemptsBounded ==
    /\ [](\A t \in TaskIds :
            /\ file.fix_attempts[t] <= MAX_FIX_ATTEMPTS
            /\ mem.fix_attempts[t] <= MAX_FIX_ATTEMPTS)
    /\ [](\A i \in 1..Len(db.fix_requests) :
            mem.fix_attempts[db.fix_requests[i].task_id] < MAX_FIX_ATTEMPTS)
    /\ [][(db.pc = "idle" /\ db'.pc # "idle") =>
            \A t \in TaskIds :
                (file.status[t] = "fix_required"
                    /\ file.fix_attempts[t] >= MAX_FIX_ATTEMPTS) =>
                  /\ mem'.status[t] = "blocked"
                  /\ [id |-> "human-fallback", task_id |-> t]
                        \in Range(mem'.pending_decisions)
                  /\ \A i \in 1..Len(db'.fix_requests) :
                        db'.fix_requests[i].task_id # t]_vars

\* a task has used its three attempts and was routed to human fallback
C4_Witness ==
    \E t \in TaskIds :
        /\ file.fix_attempts[t] = MAX_FIX_ATTEMPTS
        /\ file.status[t] = "blocked"
        /\ [id |-> "human-fallback", task_id |-> t] \in Range(file.pending_decisions)

\* C5: final_reports never holds two reports for one task id, and a call
\* of consolidate_single_task for a task that already has a final report
\* returns no report and leaves the state as it was.
C5_OneFinalReportPerTask ==
    /\ [](\A t \in TaskIds : Len(file.final_reports[t]) <= 1)
    /\ [][(obs'.op = "consolidate_single_task"
             /\ has_existing_final_report(file, obs'.task_id)) =>
            (file' = file /\ obs'.result = "no-report")]_vars

\* consolidate_single_task was called for a task that already had a report
C5_Witness ==
    /\ obs.op = "consolidate_single_task"
    /\ obs.result = "no-report"
    /\ Len(file.final_reports[obs.task_id]) = 1

\* C6: in the step that adds a final report for a task, the task ends in
\* fix_required when the report's severity is critical or major, and
\* otherwise, with auto-complete on, the task and all of its subtasks end
\* completed.
C6_ReportOutcome ==
    [][\A t \in TaskIds :
         Len(file'.final_reports[t]) > Len(file.final_reports[t]) =>
           LET report == file'.final_reports[t][Len(file'.final_reports[t])]
           IN  IF report.overall_severity \in {"critical", "major"}
               THEN file'.status[t] = "fix_required"
               ELSE obs'.auto_complete =>
                      \A c \in started_with(t) : file'.status[c] = "completed"]_vars

\* consolidate_reviews has just completed the parent unit and its subtasks
\* on a passing report
C6_Witness ==
    /\ obs.op = "consolidate_reviews"
    /\ Len(file.final_reports["1"]) = 1
    /\ file.final_reports["1"][1].overall_severity = "minor"
    /\ \A c \in started_with("1") : file.status[c] = "completed"

\* C9: a dispatch_batch call that fails on missing dispatch fields has
\* handed no task to the wrapper and has changed no task status on disk.
C9_MissingFieldsFrame ==
    (obs.op = "dispatch_batch" /\ obs.result = "missing_fields") =>
        /\ DOMAIN obs.missing # {}
        /\ obs.invoked = {}
        /\ ~obs.mutated

\* C10: batch n+1 is not handed to the wrapper before batch n has
\* returned, been reconciled and been saved; when a later batch is with
\* the wrapper the state file holds everything reconciled so far.
C10_BatchesSequential ==
    \A n \in 2..Len(db.batches) :
        /\ db.phase[n] # "queued" => db.phase[n - 1] = "saved"
        /\ db.phase[n] = "invoked" => file = mem

\* the second batch of a tick is with the wrapper
C10_Witness ==
    /\ Len(db.batches) >= 2
    /\ db.phase[2] = "invoked"
    /\ \E c \in started_with(db.batches[1][1]) : file.status[c] = "pending_review"

\* C7: while the state file holds a pending decision, no step of the loop
\* runner changes a task status or hands a task to a worker or reviewer.
C7_PendingDecisionHalts ==
    [][pending_decisions(file) # <<>> =>
          /\ file'.status = file.status
          /\ obs'.op = obs.op => obs'.invoked \subseteq obs.invoked
          /\ obs'.op # obs.op => obs'.invoked = {}]_vars

\* C8: when the runner returns, 0 means that every dispatch unit is
\* completed, a pending decision means 2, and incomplete units without a
\* pending decision mean 1.
C8_ExitCodes ==
    runner.pc = "done" =>
        LET incomplete == dispatch_unit_completion(file)[1]
        IN  /\ runner.exit_code = 0 => incomplete = 0
            /\ pending_decisions(file) # <<>> => runner.exit_code = 2
            /\ (incomplete > 0 /\ pending_decisions(file) = <<>>)
                  => runner.exit_code = 1


\* C11: within one dispatch_batch call every fix request goes to the
\* wrapper alone, all fix requests go before the ready units are computed,
\* and no invocation holds both a fix request and new work.
C11_FixRequestsAloneAndFirst ==
    /\ db.pc \in {"fix_invoke", "fix_wait"} =>
          db.batches = <<>> /\ obs.invoked = obs.fix_invoked
    /\ db.pc = "batches" => db.fix_requests = <<>>
    /\ wrapper_input \cap obs.fix_invoked # {} =>
          db.pc = "fix_wait" /\ Cardinality(wrapper_input) = 1

\* a tick that sent two fix requests and now has a batch of new work in
\* flight
C11_Witness ==
    /\ db.pc = "batches"
    /\ Cardinality(obs.fix_invoked) = 2
    /\ wrapper_input # {}


-----------------------------------------------------------------------------
(* evaluate_fix_loop_action on drawn attempt counts and severities *)

\* the severity strings a review can carry, two unrecognized ones included
DrawnSeverities == Severities \cup {"", "info"}

InitEvaluate ==
    /\ plan \in Plans
    /\ file = InitialState(InitialOwners)
    /\ mem = file
    /\ db = IdleDispatch
    /\ runner = RunnerOff
    /\ obs = NoObs
    /\ env = [faults |-> 0]
    /\ \E n \in 0..MaxAttemptsDrawn, v \in DrawnSeverities :
          pf = [NoInput EXCEPT !.arg = [fix_attempts |-> n, severity |-> v]]

Evaluate ==
    /\ ~pf.done
    /\ pf' = [pf EXCEPT
                !.out = evaluate_fix_loop_action(pf.arg.fix_attempts, pf.arg.severity),
                !.done = TRUE]
    /\ UNCHANGED <<plan, file, mem, db, runner, obs, env>>

SpecEvaluate == InitEvaluate /\ [][Evaluate]_vars

\* C12: with severity major or critical evaluate_fix_loop_action answers
\* RETRY, RETRY, ESCALATE, HUMAN_FALLBACK for 0, 1, 2, 3 completed attempts;
\* with severity none or minor it answers PASS at every attempt count.
C12_ActionTable ==
    pf.done =>
        /\ pf.arg.severity \in {"major", "critical"} =>
              /\ pf.arg.fix_attempts \in {0, 1} => pf.out = "retry"
              /\ pf.arg.fix_attempts = 2 => pf.out = "escalate"
              /\ pf.arg.fix_attempts = 3 => pf.out = "human"
        /\ pf.arg.severity \in {"none", "minor"} => pf.out = "pass"

\* the third completed attempt with a major finding ends in human fallback
C12_Witness ==
    /\ pf.done
    /\ pf.arg = [fix_attempts |-> 3, severity |-> "major"]
    /\ pf.out = "human"


-----------------------------------------------------------------------------
(* get_tasks_pending_review on drawn task statuses *)

InitPendingReview ==
    /\ plan \in Plans
    /\ \E st \in [TaskIds -> Statuses] :
          file = [InitialState(InitialOwners) EXCEPT !.status = st]
    /\ mem = file
    /\ db = IdleDispatch
    /\ runner = RunnerOff
    /\ obs = NoObs
    /\ env = [faults |-> 0]
    /\ pf = NoInput

SelectPendingReview ==
    /\ ~pf.done
    /\ pf' = [pf EXCEPT !.out = get_tasks_pending_review(file), !.done = TRUE]
    /\ UNCHANGED <<plan, file, mem, db, runner, obs, env>>

SpecPendingReview == InitPendingReview /\ [][SelectPendingReview]_vars

\* C13: get_tasks_pending_review returns exactly the parents whose direct
\* subtasks are all pending_review and the standalone tasks that are
\* themselves pending_review.
C13_PendingReviewUnits ==
    pf.done =>
        /\ Range(pf.out) \subseteq dispatch_units
        /\ \A u \in dispatch_units :
              u \in Range(pf.out) <=>
                 IF subtasks(u) # {}
                 THEN \A c \in subtasks(u) : file.status[c] = "pending_review"
                 ELSE file.status[u] = "pending_review"

\* a partially completed parent is left out while a standalone task in
\* pending_review is returned
C13_Witness ==
    /\ pf.done
    /\ file.status["1.1"] = "pending_review"
    /\ file.status["1.2"] = "in_progress"
    /\ "1" \notin Range(pf.out)
    /\ "2" \in Range(pf.out)

-----------------------------------------------------------------------------
(* update_completed_reviews_to_final on drawn criticalities and findings *)

Criticalities == {"standard", "complex", "security-sensitive", "experimental"}

\* the tasks whose criticality, status and findings are drawn
ReviewedTasks == {"1", "1.1", "2"}

InitPromote ==
    /\ \E c \in [ReviewedTasks -> Criticalities] :
          plan = [deps |-> NoDeps, optional |-> {}, writes |-> NoFiles,
                  reads |-> NoFiles,
                  criticality |-> [t \in TaskIds |->
                      IF t \in ReviewedTasks THEN c[t] ELSE "standard"]]
    /\ \E st \in [ReviewedTasks \cup {"1.2"} ->
                      {"under_review", "pending_review", "in_progress"}],
          n \in [ReviewedTasks -> 0..MaxFindingsDrawn] :
          file = [InitialState(InitialOwners) EXCEPT
                    !.status = [t \in TaskIds |->
                        IF t \in DOMAIN st THEN st[t] ELSE @[t]],
                    !.review_findings = [t \in TaskIds |->
                        IF t \in ReviewedTasks
                        THEN [i \in 1..n[t] |-> [severity |-> "none", task_id |-> t]]
                        ELSE <<>>]]
    /\ mem = file
    /\ db = IdleDispatch
    /\ runner = RunnerOff
    /\ obs = NoObs
    /\ env = [faults |-> 0]
    /\ pf = NoInput

Promote ==
    /\ ~pf.done
    /\ file' = update_completed_reviews_to_final(file)
    /\ pf' = [pf EXCEPT !.arg = file.status, !.done = TRUE]
    /\ UNCHANGED <<plan, mem, db, runner, obs, env>>

SpecPromote == InitPromote /\ [][Promote]_vars

\* the reviewer count the claim's table gives a criticality
C14_Required(t) ==
    IF plan.criticality[t] \in {"complex", "security-sensitive"} THEN 2 ELSE 1

C14_Enough(t) == Len(file.review_findings[t]) >= C14_Required(t)

\* C14 as stated: a task that was under_review is final_review afterwards
\* exactly when the findings recorded against its own id reach its required
\* reviewer count.
C14_PromotedExactlyOnOwnFindings ==
    pf.done =>
        \A t \in TaskIds :
            pf.arg[t] = "under_review" =>
                (file.status[t] = "final_review" <=> C14_Enough(t))

\* C14 amended: a task that was under_review is final_review afterwards
\* exactly when the findings recorded against its own id reach its required
\* reviewer count (standard 1, complex 2, security-sensitive 2, anything else
\* 1), or it is a subtask of an under_review parent promoted on that count;
\* every other status is left alone, apart from a promoted parent's
\* pending_review subtasks.
C14_PromotedOnFindingsOrWithParent ==
    pf.done =>
        \A t \in TaskIds :
            LET with_parent == /\ parent_id(t) \in TaskIds
                               /\ pf.arg[parent_id(t)] = "under_review"
                               /\ C14_Enough(parent_id(t))
            IN  /\ pf.arg[t] = "under_review" =>
                      (file.status[t] = "final_review"
                          <=> (C14_Enough(t) \/ with_parent))
                /\ pf.arg[t] # "under_review" =>
                      file.status[t] =
                          IF with_parent /\ pf.arg[t] = "pending_review"
                          THEN "final_review" ELSE pf.arg[t]

\* a complex task with two findings is promoted, and its subtask with it,
\* beside a complex task with one finding that is not
C14_Witness ==
    /\ pf.done
    /\ plan.criticality["1"] = "complex"
    /\ plan.criticality["2"] = "complex"
    /\ pf.arg["1"] = "under_review"
    /\ pf.arg["2"] = "under_review"
    /\ Len(file.review_findings["1"]) = 2
    /\ Len(file.review_findings["2"]) = 1
    /\ file.status["1"] = "final_review"
    /\ file.status["2"] = "under_review"
    /\ pf.arg["1.1"] = "under_review"
    /\ file.review_findings["1.1"] = <<>>
    /\ file.status["1.1"] = "final_review"

-----------------------------------------------------------------------------
(* update_parent_statuses on a nested plan in any document order *)

\* a plan three levels deep: 1 > 1.1 > 1.1.1, and 1 > 1.2
NestedIds == {"1", "1.1", "1.1.1", "1.2"}

\* parse_tasks: the parent is the id up to the last dot
nested_parent_id(t) ==
    CASE t = "1.1" -> "1"
      [] t = "1.2" -> "1"
      [] t = "1.1.1" -> "1.1"
      [] OTHER -> NoTask

\* tasks.md may list the tasks in any order (parse_tasks, pass 2); the state
\* file keeps the order of the document
Documents ==
    {q \in [1..Cardinality(NestedIds) -> NestedIds] :
        \A i, j \in 1..Len(q) : i # j => q[i] # q[j]}

nested_subtasks(t) == {c \in NestedIds : nested_parent_id(c) = t}

\* the loop of update_parent_statuses over the task list doc, from position i
\* down to the first task
RECURSIVE update_parent_statuses_in(_, _, _)
update_parent_statuses_in(doc, st, i) ==
    IF i = 0 THEN st
    ELSE LET task == doc[i]
         IN  IF nested_subtasks(task) = {}
             THEN update_parent_statuses_in(doc, st, i - 1)
             ELSE update_parent_statuses_in(doc,
                    [st EXCEPT ![task] =
                        derive_parent_status({st[c] : c \in nested_subtasks(task)})],
                    i - 1)

InitParents ==
    /\ plan \in Plans
    /\ file = InitialState(InitialOwners)
    /\ mem = file
    /\ db = IdleDispatch
    /\ runner = RunnerOff
    /\ obs = NoObs
    /\ env = [faults |-> 0]
    /\ \E doc \in Documents, st \in [NestedIds -> Statuses] :
          pf = [NoInput EXCEPT !.tasks = doc, !.arg = st]

ResolveParents ==
    /\ ~pf.done
    /\ pf' = [pf EXCEPT
                !.out = update_parent_statuses_in(pf.tasks, pf.arg, Len(pf.tasks)),
                !.done = TRUE]
    /\ UNCHANGED <<plan, file, mem, db, runner, obs, env>>

SpecParents == InitParents /\ [][ResolveParents]_vars

\* C15: after update_parent_statuses the status of every parent task, at every
\* nesting depth, is the strict-priority derivation from its direct subtasks'
\* statuses as they stand after the call.
C15_ParentsDerivedAtEveryDepth ==
    pf.done =>
        \A t \in NestedIds :
            nested_subtasks(t) # {} =>
                pf.out[t] = derive_parent_status({pf.out[c] : c \in nested_subtasks(t)})

-----------------------------------------------------------------------------
\* C16: every task dispatch_batch hands to the wrapper as a unit of work, as
\* new work or as a fix request, is a dispatch unit: never a task that has a
\* parent and no children.
C16_OnlyDispatchUnitsHandedOver ==
    \A t \in wrapper_input \cup (IF obs.op = "dispatch_batch" THEN obs.invoked ELSE {}) :
        ~(parent_id(t) # NoTask /\ subtasks(t) = {})

\* a tick that sent the parent task 1 as a fix request and then has new work
\* in flight
C16_Witness ==
    /\ db.pc = "batches"
    /\ "1" \in obs.fix_invoked
    /\ wrapper_input # {}
    /\ wrapper_input \cap obs.fix_invoked = {}

-----------------------------------------------------------------------------
(* sequential-orchestration: spec_parser.py and sequential_loop.py.         *)
(* A task id is written as the list of its numbers: "1.2" is <<1, 2>>.      *)
(* The variables stand for the sequential runner's data: plan is the parsed *)
(* tasks.md, file is SEQUENTIAL_STATE.json, mem is the runner's state dict, *)
(* runner its position in run_sequential_loop, obs the last DispatchResult. *)

NoSeqTask == <<>>

\* tasks.md in document order; task 10 is written above task 2
SeqTasks == << <<1>>, <<1, 1>>, <<1, 1, 1>>, <<1, 2>>, <<10>>, <<2>> >>

\* _create_task: the parent id is everything before the last dot
seq_parent_id(t) == IF Len(t) > 1 THEN SubSeq(t, 1, Len(t) - 1) ELSE NoSeqTask

\* _create_task: a child is linked to its parent only when the parent was
\* parsed before it
seq_subtasks(t) ==
    {plan.tasks[k] : k \in {j \in 1..Len(plan.tasks) :
        /\ seq_parent_id(plan.tasks[j]) = t
        /\ \E i \in 1..(j - 1) : plan.tasks[i] = t}}

seq_is_dispatch_unit(t) == seq_subtasks(t) # {} \/ seq_parent_id(t) = NoSeqTask

RECURSIVE seq_expand_dependencies(_)
seq_expand_dependencies(dependencies) ==
    UNION {IF seq_subtasks(d) # {}
           THEN seq_expand_dependencies(seq_subtasks(d))
           ELSE {d} : d \in dependencies}

\* comparison of two _task_id_sort_key lists, as Python compares lists
RECURSIVE task_id_sort_key_less(_, _)
task_id_sort_key_less(a, b) ==
    IF a = <<>> THEN b # <<>>
    ELSE IF b = <<>> THEN FALSE
    ELSE IF Head(a) # Head(b) THEN Head(a) < Head(b)
    ELSE task_id_sort_key_less(Tail(a), Tail(b))

\* sorted(tasks, key=_task_id_sort_key)
RECURSIVE sorted_tasks(_)
sorted_tasks(S) ==
    IF S = {} THEN <<>>
    ELSE LET first == CHOOSE x \in S :
                          \A y \in S \ {x} : task_id_sort_key_less(x, y)
         IN  <<first>> \o sorted_tasks(S \ {first})

\* the loop body of get_next_dispatch_unit: may this task be returned
seq_eligible(task, completed_ids) ==
    /\ seq_is_dispatch_unit(task)
    /\ task \notin Range(completed_ids)
    /\ task \notin plan.is_optional
    /\ seq_expand_dependencies(plan.dependencies[task]) \subseteq Range(completed_ids)

get_next_dispatch_unit_document_order(completed_ids) ==
    LET hits == {i \in 1..Len(plan.tasks) : seq_eligible(plan.tasks[i], completed_ids)}
    IN  IF hits = {} THEN NoSeqTask
        ELSE plan.tasks[CHOOSE i \in hits : \A j \in hits : i <= j]

get_next_dispatch_unit(completed_ids) ==
    LET sorted == sorted_tasks(Range(plan.tasks))
        hits == {i \in 1..Len(sorted) : seq_eligible(sorted[i], completed_ids)}
    IN  IF hits = {} THEN NoSeqTask
        ELSE sorted[CHOOSE i \in hits : \A j \in hits : i <= j]

all_tasks_complete_nonempty(completed_ids) == completed_ids # <<>>

all_tasks_complete(completed_ids) ==
    \A task \in Range(plan.tasks) :
        (task \notin plan.is_optional /\ seq_is_dispatch_unit(task))
            => task \in Range(completed_ids)

\* task_id.startswith(prefix) with prefix = next_task.task_id + "."
starts_with_prefix(t, unit) ==
    Len(t) > Len(unit) /\ SubSeq(t, 1, Len(unit)) = unit

done_ids_children(unit) ==
    SelectSeq(plan.tasks, LAMBDA t : t = unit \/ seq_parent_id(t) = unit)

\* done_ids of run_sequential_loop for a completed result
done_ids(unit) ==
    SelectSeq(plan.tasks, LAMBDA t : t = unit \/ starts_with_prefix(t, unit))

\* the completed list after the ids of done_ids not yet in it are appended
mark_completed(completed_ids, unit) ==
    completed_ids \o SelectSeq(done_ids(unit),
                               LAMBDA t : t \notin Range(completed_ids))

SeqNoDeps == [t \in Range(SeqTasks) |-> {}]

\* the plans explored: optional markers on tasks 1 and 10, and "depends on"
\* lines, one of them naming a task that does not exist
SeqPlans ==
    {[tasks |-> SeqTasks, dependencies |-> d, is_optional |-> o] :
        d \in {SeqNoDeps,
               [SeqNoDeps EXCEPT ![<<2>>] = {<<1>>}],
               [SeqNoDeps EXCEPT ![<<1>>] = {<<10>>}],
               [SeqNoDeps EXCEPT ![<<10>>] = {<<9>>}]},
        o \in SUBSET {<<1>>, <<10>>}}

\* load_state on a missing file, with started_at stamped by the bootstrap
FreshSeqState ==
    [completed |-> <<>>, halted |-> FALSE, halted_at |-> "", halted_task |-> NoSeqTask,
     started_at |-> "now", completed_at |-> "", assignments |-> {}]

\* state files a run can start from: none, one left by a run that halted on
\* task 2 after completing task 1, and one left by a finished run
SeqResumeStates ==
    {FreshSeqState,
     [FreshSeqState EXCEPT
        !.completed = << <<1>>, <<1, 1>>, <<1, 1, 1>>, <<1, 2>> >>,
        !.halted = TRUE, !.halted_at = "now", !.halted_task = <<2>>,
        !.assignments = {<<1>>, <<2>>}],
     [FreshSeqState EXCEPT
        !.completed = << <<1>>, <<1, 1>>, <<1, 1, 1>>, <<1, 2>>, <<10>>, <<2>> >>,
        !.completed_at = "now",
        !.assignments = {<<1>>, <<2>>, <<10>>}]}

\* run_sequential_loop at the head of its main loop
InitSeq ==
    /\ plan \in SeqPlans
    /\ file \in SeqResumeStates
    /\ mem = file
    /\ \E n \in 0..MaxSeqIterations :
          runner = [pc |-> "top", iteration |-> 1, max_iterations |-> n,
                    exit_code |-> -1, next_task |-> NoSeqTask,
                    completed_ids |-> file.completed]
    /\ obs = NoObs
    /\ db = IdleDispatch
    /\ env = [faults |-> 0]
    /\ pf = NoInput

seq_returned(code) == [runner EXCEPT !.pc = "done", !.exit_code = code]

\* range(1, max_iterations + 1) is used up
Seq_BudgetExhausted ==
    /\ runner.pc = "top"
    /\ runner.iteration > runner.max_iterations
    /\ runner' = seq_returned(1)
    /\ UNCHANGED <<plan, file, mem, db, obs, env, pf>>

\* head of an iteration with every task complete
Seq_AllComplete ==
    /\ runner.pc = "top"
    /\ runner.iteration <= runner.max_iterations
    /\ all_tasks_complete(runner.completed_ids)
    /\ mem' = [mem EXCEPT !.completed_at = "now"]
    /\ file' = mem'
    /\ runner' = seq_returned(0)
    /\ UNCHANGED <<plan, db, obs, env, pf>>

\* head of an iteration with no executable task
Seq_NoExecutableTask ==
    /\ runner.pc = "top"
    /\ runner.iteration <= runner.max_iterations
    /\ ~all_tasks_complete(runner.completed_ids)
    /\ get_next_dispatch_unit(runner.completed_ids) = NoSeqTask
    /\ runner' = seq_returned(2)
    /\ UNCHANGED <<plan, file, mem, db, obs, env, pf>>

\* head of an iteration up to the call of dispatch_task; ensure_assignments
\* gives the unit an assignment whatever the assigning agent answers
Seq_SelectTask ==
    /\ runner.pc = "top"
    /\ runner.iteration <= runner.max_iterations
    /\ ~all_tasks_complete(runner.completed_ids)
    /\ LET next_task == get_next_dispatch_unit(runner.completed_ids)
       IN  /\ next_task # NoSeqTask
           /\ mem' = [mem EXCEPT !.assignments = @ \cup {next_task}]
           /\ file' = IF next_task \in mem.assignments THEN file ELSE mem'
           /\ runner' = [runner EXCEPT !.pc = "dispatch", !.next_task = next_task]
    /\ UNCHANGED <<plan, db, obs, env, pf>>

Seq_HandleResult_failure_stops ==
    /\ runner.pc = "dispatch"
    /\ \E result \in {"completed", "halted", "failed"} :
          LET unit == runner.next_task
              completed_ids == IF result = "completed"
                               THEN mark_completed(runner.completed_ids, unit)
                               ELSE runner.completed_ids
              finished == all_tasks_complete(completed_ids)
          IN  /\ obs' = [NoObs EXCEPT !.op = "dispatch_task", !.result = result,
                                      !.task_id = unit]
              /\ mem' = CASE result = "halted" ->
                               [mem EXCEPT !.halted = TRUE, !.halted_at = "now",
                                           !.halted_task = unit]
                          [] result = "completed" ->
                               [mem EXCEPT !.completed = completed_ids,
                                           !.completed_at =
                                               IF finished THEN "now" ELSE @]
                          [] OTHER ->
                               [mem EXCEPT !.completed_at =
                                               IF finished THEN "now" ELSE @]
              /\ file' = IF result = "failed" /\ ~finished THEN file ELSE mem'
              /\ runner' = CASE result = "halted" ->
                                  [seq_returned(2) EXCEPT !.completed_ids = completed_ids]
                             [] result = "failed" ->
                                  [seq_returned(1) EXCEPT !.completed_ids = completed_ids]
                             [] finished ->
                                  [seq_returned(0) EXCEPT !.completed_ids = completed_ids]
                             [] OTHER ->
                                  [runner EXCEPT !.pc = "top",
                                                 !.iteration = @ + 1,
                                                 !.completed_ids = completed_ids]
    /\ UNCHANGED <<plan, db, env, pf>>

\* the return of dispatch_task and the rest of the iteration
Seq_HandleResult ==
    /\ runner.pc = "dispatch"
    /\ \E result \in {"completed", "halted", "failed"} :
          LET unit == runner.next_task
              completed_ids == IF result = "completed"
                               THEN mark_completed(runner.completed_ids, unit)
                               ELSE runner.completed_ids
              finished == all_tasks_complete(completed_ids)
          IN  /\ obs' = [NoObs EXCEPT !.op = "dispatch_task", !.result = result,
                                      !.task_id = unit]
              /\ mem' = CASE result = "halted" ->
                               [mem EXCEPT !.halted = TRUE, !.halted_at = "now",
                                           !.halted_task = unit]
                          [] result = "completed" ->
                               [mem EXCEPT !.completed = completed_ids,
                                           !.completed_at =
                                               IF finished THEN "now" ELSE @]
                          [] OTHER ->
                               [mem EXCEPT !.completed_at =
                                               IF finished THEN "now" ELSE @]
              /\ file' = IF result = "failed" /\ ~finished THEN file ELSE mem'
              /\ runner' = CASE result = "halted" ->
                                  [seq_returned(2) EXCEPT !.completed_ids = completed_ids]
                             [] finished ->
                                  [seq_returned(0) EXCEPT !.completed_ids = completed_ids]
                             [] OTHER ->
                                  [runner EXCEPT !.pc = "top",
                                                 !.iteration = @ + 1,
                                                 !.completed_ids = completed_ids]
    /\ UNCHANGED <<plan, db, env, pf>>

NextSeq ==
    \/ Seq_BudgetExhausted
    \/ Seq_AllComplete
    \/ Seq_NoExecutableTask
    \/ Seq_SelectTask
    \/ Seq_HandleResult

SpecSeq == InitSeq /\ [][NextSeq]_vars

\* C17: in the sequential runner a completed result for dispatched unit U
\* adds U and every task whose id is dot-prefixed by U, at any nesting depth,
\* to the completed list of the state file in one state update, and adds no
\* other id; no other step changes the completed list.
C17_CompletedUnitWithDescendants ==
    [][LET unit == runner.next_task
           under == {t \in Range(plan.tasks) :
                        \/ t = unit
                        \/ Len(t) > Len(unit) /\ \A i \in 1..Len(unit) : t[i] = unit[i]}
       IN  /\ (runner.pc = "dispatch" /\ obs'.result = "completed")
                  => Range(file'.completed) = Range(file.completed) \cup under
           /\ file'.completed # file.completed
                  => runner.pc = "dispatch" /\ obs'.result = "completed"]_vars

\* parent 1 was dispatched and completed: 1, 1.1, 1.1.1 and 1.2 are in the
\* saved completed list and nothing else is
C17_Witness ==
    /\ obs.result = "completed"
    /\ obs.task_id = <<1>>
    /\ Range(file.completed) = {<<1>>, <<1, 1>>, <<1, 1, 1>>, <<1, 2>>}

-----------------------------------------------------------------------------
(* get_next_dispatch_unit on drawn completed lists, optional markers and    *)
(* dependencies                                                              *)

InitNextUnit ==
    /\ \E d \in {SeqNoDeps,
                 [SeqNoDeps EXCEPT ![<<2>>] = {<<1>>}],
                 [SeqNoDeps EXCEPT ![<<1>>] = {<<10>>}, ![<<2>>] = {<<1, 1>>}],
                 [SeqNoDeps EXCEPT ![<<10>>] = {<<9>>}, ![<<1, 1>>] = {<<2>>}]},
          o \in SUBSET {<<1>>, <<1, 1>>, <<2>>} :
          plan = [tasks |-> SeqTasks, dependencies |-> d, is_optional |-> o]
    /\ \E done \in SUBSET Range(SeqTasks) :
          pf = [NoInput EXCEPT !.arg = SelectSeq(SeqTasks, LAMBDA t : t \in done)]
    /\ file = FreshSeqState
    /\ mem = file
    /\ runner = RunnerOff
    /\ obs = NoObs
    /\ db = IdleDispatch
    /\ env = [faults |-> 0]

SelectNextUnit ==
    /\ ~pf.done
    /\ pf' = [pf EXCEPT !.out = get_next_dispatch_unit(pf.arg), !.done = TRUE]
    /\ UNCHANGED <<plan, file, mem, db, runner, obs, env>>

SpecNextUnit == InitNextUnit /\ [][SelectNextUnit]_vars

\* dot-aware numeric order of two different task ids
C18_Before(a, b) ==
    \E k \in 1..Len(b) :
        /\ \A i \in 1..(k - 1) : i <= Len(a) /\ a[i] = b[i]
        /\ k > Len(a) \/ a[k] < b[k]

\* a dependency stands for itself, or for the leaves below it when it is a
\* parent task
C18_Expanded(d) ==
    LET below == {t \in Range(plan.tasks) :
                     Len(t) > Len(d) /\ \A i \in 1..Len(d) : t[i] = d[i]}
    IN  IF below = {} THEN {d}
        ELSE {t \in below : \A u \in below : ~(Len(u) > Len(t)
                                               /\ \A i \in 1..Len(t) : u[i] = t[i])}

\* the units get_next_dispatch_unit may return: parents and standalone tasks
\* that are not completed, not optional and have all expanded dependencies
\* completed
C18_Candidates ==
    {t \in Range(plan.tasks) :
        /\ Len(t) = 1 \/ \E c \in Range(plan.tasks) :
                            Len(c) = Len(t) + 1 /\ \A i \in 1..Len(t) : c[i] = t[i]
        /\ t \notin Range(pf.arg)
        /\ t \notin plan.is_optional
        /\ \A d \in plan.dependencies[t] : C18_Expanded(d) \subseteq Range(pf.arg)}

\* C18: get_next_dispatch_unit returns the first dispatch unit, in dot-aware
\* numeric id order, that is not in the completed list, is not optional and
\* whose expanded dependencies are all in the completed list; it returns
\* nothing when no such unit exists.
C18_FirstEligibleUnit ==
    pf.done =>
        IF C18_Candidates = {} THEN pf.out = NoSeqTask
        ELSE /\ pf.out \in C18_Candidates
             /\ \A t \in C18_Candidates \ {pf.out} : C18_Before(pf.out, t)

\* with task 1 and its subtasks completed, task 2 is returned although task 10
\* stands above it in the document
C18_Witness ==
    /\ pf.done
    /\ Range(pf.arg) = {<<1>>, <<1, 1>>, <<1, 1, 1>>, <<1, 2>>}
    /\ plan.dependencies[<<2>>] = {<<1>>}
    /\ plan.is_optional = {}
    /\ pf.out = <<2>>
    /\ <<10>> \in C18_Candidates

-----------------------------------------------------------------------------
\* every non-optional parent or standalone task is in the saved completed list
C19_Complete ==
    \A t \in Range(plan.tasks) :
        (/\ t \notin plan.is_optional
         /\ Len(t) = 1 \/ \E c \in Range(plan.tasks) : seq_parent_id(c) = t)
            => t \in Range(file.completed)

\* C19: the sequential runner returns 0 only when every non-optional dispatch
\* unit is in the completed list; 2 when a dispatch result is halted, with
\* halted, halted_at and halted_task stamped into the saved state, or when no
\* unit can be selected although the run is incomplete; 1 when the iteration
\* budget runs out without completion.
C19_SequentialExitCodes ==
    runner.pc = "done" =>
        /\ runner.exit_code \in {0, 1, 2}
        /\ runner.exit_code = 0 => C19_Complete
        /\ obs.result = "halted" =>
              /\ runner.exit_code = 2
              /\ file.halted
              /\ file.halted_at # ""
              /\ file.halted_task = obs.task_id
        /\ (runner.exit_code = 2 /\ obs.result # "halted") =>
              /\ ~C19_Complete
              /\ get_next_dispatch_unit(file.completed) = NoSeqTask
        /\ runner.exit_code = 1 =>
              /\ runner.iteration > runner.max_iterations
              /\ runner.max_iterations > 0 => ~C19_Complete
        /\ (runner.iteration > runner.max_iterations /\ ~C19_Complete) =>
              runner.exit_code = 1

\* a run that completed task 1, then was halted by task 2 in its second
\* iteration
C19_Witness ==
    /\ runner.pc = "done"
    /\ runner.exit_code = 2
    /\ runner.iteration = 2
    /\ obs.result = "halted"
    /\ file.halted_task = <<2>>
    /\ <<1>> \in Range(file.completed)

-----------------------------------------------------------------------------
(* Writes of the live state file, one system call at a time.                *)
(* The text of a state is written in MaxChunks pieces; state number n is    *)
(* the text <<n, ..., n>>.  file is the content at the state path, mem the  *)
(* content at the temporary sibling path, runner the writing process.       *)

StateText(n) == [i \in 1..MaxChunks |-> n]

NoTmpFile == <<0>>

\* the components that write the state file and the function each one calls
StateWriters ==
    [dispatch_batch |-> "save_agent_state",
     dispatch_reviews |-> "save_agent_state",
     consolidate_reviews |-> "save_agent_state",
     orchestration_loop |-> "_write_json"]

InitWrite ==
    /\ file = StateText(0)
    /\ mem = NoTmpFile
    /\ runner = [pc |-> "idle", component |-> "none", payload |-> 0, writes |-> 0]
    /\ env = [faults |-> 0]
    /\ plan \in Plans
    /\ db = IdleDispatch
    /\ obs = NoObs
    /\ pf = NoInput

\* a component has read the file, changed the state in memory and calls its
\* write function
Write_Call ==
    /\ runner.pc = "idle"
    /\ runner.writes < MaxWrites
    /\ \E c \in DOMAIN StateWriters :
          runner' = [pc |-> StateWriters[c], component |-> c,
                     payload |-> runner.writes + 1, writes |-> runner.writes + 1]
    /\ UNCHANGED <<plan, file, mem, db, obs, env, pf>>

\* save_agent_state: open(tmp_file, 'w')
SaveAgentState_OpenTmp ==
    /\ runner.pc = "save_agent_state"
    /\ mem' = <<>>
    /\ runner' = [runner EXCEPT !.pc = "dump_tmp"]
    /\ UNCHANGED <<plan, file, db, obs, env, pf>>

\* save_agent_state: json.dump to the temporary file, piece by piece
SaveAgentState_Dump ==
    /\ runner.pc = "dump_tmp"
    /\ IF Len(mem) < MaxChunks
       THEN mem' = Append(mem, runner.payload) /\ runner' = runner
       ELSE mem' = mem /\ runner' = [runner EXCEPT !.pc = "replace"]
    /\ UNCHANGED <<plan, file, db, obs, env, pf>>

\* save_agent_state: os.replace(tmp_file, state_file)
SaveAgentState_Replace ==
    /\ runner.pc = "replace"
    /\ file' = mem
    /\ mem' = NoTmpFile
    /\ runner' = [runner EXCEPT !.pc = "idle"]
    /\ UNCHANGED <<plan, db, obs, env, pf>>

\* _write_json: path.write_text opens the state file itself for writing,
\* which empties it
WriteJson_Open ==
    /\ runner.pc = "_write_json"
    /\ file' = <<>>
    /\ runner' = [runner EXCEPT !.pc = "write_text"]
    /\ UNCHANGED <<plan, mem, db, obs, env, pf>>

\* _write_json: the text reaches the state file piece by piece
WriteJson_Write ==
    /\ runner.pc = "write_text"
    /\ IF Len(file) < MaxChunks
       THEN file' = Append(file, runner.payload) /\ runner' = runner
       ELSE file' = file /\ runner' = [runner EXCEPT !.pc = "idle"]
    /\ UNCHANGED <<plan, mem, db, obs, env, pf>>

\* the writing process is killed in the middle of a write
Write_Crash ==
    /\ runner.pc # "idle"
    /\ env.faults < MaxFaults
    /\ env' = [faults |-> env.faults + 1]
    /\ runner' = [runner EXCEPT !.pc = "idle"]
    /\ UNCHANGED <<plan, file, mem, db, obs, pf>>

NextWrite ==
    \/ Write_Call
    \/ SaveAgentState_OpenTmp
    \/ SaveAgentState_Dump
    \/ SaveAgentState_Replace
    \/ WriteJson_Open
    \/ WriteJson_Write
    \/ Write_Crash

SpecWrite == InitWrite /\ [][NextWrite]_vars

\* C20: at every instant, a crash in the middle of a write included, the
\* state file holds one complete state, whichever component is writing.
C20_StateFileAlwaysComplete ==
    \E n \in 0..MaxWrites : file = StateText(n)

-----------------------------------------------------------------------------
(* sync_pulse.py: the Semantic Anchors section through repeated syncs.      *)
(* file is the agent state (status and files_changed of two tasks), mem the *)
(* anchor lines of the PULSE document, pf.tasks the tasks completed since   *)
(* the last sync.                                                           *)

PulseTasks == <<"1", "2">>

\* changed files a worker may report; the last one has a blank in its name
PulsePaths == <<"src/a.py", "lib/b.py", "my dir/c.py">>

\* build_semantic_anchors: parts[0] of the path split at "/"
anchor_module(path) ==
    CASE path = "src/a.py" -> "src"
      [] path = "lib/b.py" -> "lib"
      [] OTHER -> "my dir"

\* the anchor pattern of _parse_semantic_anchors on a line written by
\* generate_pulse: the path group [^`\s]+ stops at white space, after which
\* "->" must follow
anchor_pattern_matches(line) ==
    /\ line.module # ""
    /\ line.path \in {"src/a.py", "lib/b.py"}

\* generate_pulse writes one line per anchor; _parse_semantic_anchors keeps
\* the lines its pattern matches
parse_semantic_anchors(lines) == SelectSeq(lines, anchor_pattern_matches)

\* the inner loop of build_semantic_anchors over files_changed of one task
RECURSIVE add_anchors_of_task(_, _, _)
add_anchors_of_task(anchors, task_id, files_changed) ==
    IF files_changed = <<>> THEN anchors
    ELSE LET file_path == Head(files_changed)
             seen == {anchors[i].path : i \in 1..Len(anchors)}
         IN  add_anchors_of_task(
                IF file_path \in seen THEN anchors
                ELSE Append(anchors, [module |-> anchor_module(file_path),
                                      path |-> file_path, symbol |-> task_id]),
                task_id, Tail(files_changed))

RECURSIVE build_semantic_anchors_from(_, _, _)
build_semantic_anchors_from(s, anchors, i) ==
    IF i > Len(PulseTasks) THEN anchors
    ELSE build_semantic_anchors_from(s,
            IF s.status[PulseTasks[i]] = "completed"
            THEN add_anchors_of_task(anchors, PulseTasks[i],
                                     s.files_changed[PulseTasks[i]])
            ELSE anchors,
            i + 1)

build_semantic_anchors(agent_state, existing_anchors) ==
    build_semantic_anchors_from(agent_state, existing_anchors, 1)

InitPulse ==
    /\ file = [status |-> [t \in Range(PulseTasks) |-> "in_progress"],
               files_changed |-> [t \in Range(PulseTasks) |-> <<>>]]
    /\ mem = <<>>
    /\ pf = NoInput
    /\ obs = NoObs
    /\ plan \in Plans
    /\ db = IdleDispatch
    /\ runner = RunnerOff
    /\ env = [faults |-> 0]

\* a task's result is reconciled: files_changed is recorded and the task ends
\* completed
Pulse_TaskCompleted ==
    /\ \E t \in Range(PulseTasks), S \in SUBSET Range(PulsePaths) :
          /\ file.status[t] # "completed"
          /\ Cardinality(S) <= MaxFilesChanged
          /\ file' = [file EXCEPT
                        !.status[t] = "completed",
                        !.files_changed[t] = SelectSeq(PulsePaths, LAMBDA p : p \in S)]
          /\ pf' = [pf EXCEPT !.tasks = Append(@, t)]
    /\ obs' = [NoObs EXCEPT !.op = "task_completed"]
    /\ UNCHANGED <<plan, mem, db, runner, env>>

\* sync_pulse_from_state on the PULSE document and the agent state
Pulse_Sync ==
    /\ mem' = build_semantic_anchors(file, parse_semantic_anchors(mem))
    /\ pf' = [pf EXCEPT !.tasks = <<>>]
    /\ obs' = [NoObs EXCEPT !.op = "sync_pulse"]
    /\ UNCHANGED <<plan, file, db, runner, env>>

NextPulse == Pulse_TaskCompleted \/ Pulse_Sync

SpecPulse == InitPulse /\ [][NextPulse]_vars

\* C21: a sync never removes and never duplicates a semantic anchor: a sync
\* that directly follows a sync leaves the anchor list unchanged, and a sync
\* after one newly completed task with one previously unseen changed file
\* grows the list by exactly one entry.
C21_AnchorsKeptAndUnique ==
    [][obs'.op = "sync_pulse" =>
          /\ \A i \in 1..Len(mem) : \E j \in 1..Len(mem') : mem'[j] = mem[i]
          /\ \A i, j \in 1..Len(mem') : mem'[i].path = mem'[j].path => i = j
          /\ obs.op = "sync_pulse" => mem' = mem
          /\ (/\ Len(pf.tasks) = 1
              /\ Len(file.files_changed[pf.tasks[1]]) = 1
              /\ \A i \in 1..Len(mem) :
                    mem[i].path # file.files_changed[pf.tasks[1]][1])
                => Len(mem') = Len(mem) + 1]_vars

-----------------------------------------------------------------------------
(* spec_parser.py: extract_dependencies and topological_sort on a small     *)
(* task list. plan.dependencies is what _extract_dependencies_from_details  *)
(* returns for each task, pf.arg the iteration order of the set graph.nodes.*)

SortTasks == <<"1", "2", "3">>

\* the ids a dependency line may name; "4" is not a task of the list
SortRefs == <<"1", "2", "3", "4">>

\* graph.add_task(task_id, valid_deps)
valid_deps(deps) == SelectSeq(deps, LAMBDA d : d \in Range(SortTasks))

\* missing_deps of extract_dependencies: the tasks that name an unknown id
missing_dependencies(dependencies) ==
    LET missing(t) == SelectSeq(dependencies[t], LAMBDA d : d \notin Range(SortTasks))
    IN  {[task_id |-> t, missing |-> missing(t)] :
            t \in {u \in Range(SortTasks) : missing(u) # <<>>}}

\* dfs of _detect_circular_dependencies; st carries visited, rec_stack, path
\* and cycles, and ret is the value dfs returns
RECURSIVE dfs(_, _, _)
RECURSIVE dfs_deps(_, _, _, _)
dfs(edges, st, node) ==
    dfs_deps(edges,
             [st EXCEPT !.visited = @ \cup {node}, !.rec_stack = @ \cup {node},
                        !.path = Append(@, node)],
             node, edges[node])

dfs_deps(edges, st, node, deps) ==
    IF deps = <<>>
    THEN [st EXCEPT !.path = SubSeq(@, 1, Len(@) - 1),
                    !.rec_stack = @ \ {node}, !.ret = FALSE]
    ELSE LET dep == Head(deps)
         IN  IF dep \notin st.visited
             THEN LET r == dfs(edges, st, dep)
                  IN  IF r.ret THEN r ELSE dfs_deps(edges, r, node, Tail(deps))
             ELSE IF dep \in st.rec_stack
             THEN LET cycle_start == CHOOSE i \in 1..Len(st.path) :
                                        /\ st.path[i] = dep
                                        /\ \A j \in 1..(i - 1) : st.path[j] # dep
                  IN  [st EXCEPT !.cycles = Append(@,
                                    SubSeq(st.path, cycle_start, Len(st.path)) \o <<dep>>),
                                 !.ret = TRUE]
             ELSE dfs_deps(edges, st, node, Tail(deps))

RECURSIVE detect_from(_, _, _)
detect_from(edges, st, nodes) ==
    IF nodes = <<>> THEN st.cycles
    ELSE detect_from(edges,
                     IF Head(nodes) \notin st.visited THEN dfs(edges, st, Head(nodes))
                     ELSE st,
                     Tail(nodes))

detect_circular_dependencies_acyclic(edges, nodes) == <<>>

\* _detect_circular_dependencies, visiting graph.nodes in the order nodes
detect_circular_dependencies(edges, nodes) ==
    detect_from(edges,
                [visited |-> {}, rec_stack |-> {}, path |-> <<>>, cycles |-> <<>>,
                 ret |-> FALSE],
                nodes)

\* the while loop of topological_sort
RECURSIVE sort_queue(_, _, _, _)
sort_queue(dependencies, queue, in_degree, ordered) ==
    IF queue = <<>> THEN ordered
    ELSE LET current == CHOOSE t \in Range(queue) :
                           \A i, j \in 1..Len(SortTasks) :
                               SortTasks[i] = t /\ SortTasks[j] \in Range(queue) => i <= j
             rest == SelectSeq(queue, LAMBDA t : t # current)
             hit == {t \in Range(SortTasks) : current \in Range(dependencies[t])}
             degree == [t \in Range(SortTasks) |->
                          IF t \in hit THEN in_degree[t] - 1 ELSE in_degree[t]]
         IN  sort_queue(dependencies,
                        rest \o SelectSeq(SortTasks, LAMBDA t : t \in hit /\ degree[t] = 0),
                        degree, Append(ordered, current))

\* topological_sort: (sorted_tasks, circular_errors, missing_errors)
topological_sort(dependencies, nodes) ==
    LET edges == [t \in Range(SortTasks) |-> valid_deps(dependencies[t])]
        circular == detect_circular_dependencies(edges, nodes)
        missing == missing_dependencies(dependencies)
    IN  IF circular # <<>> \/ missing # {}
        THEN [sorted |-> <<>>, circular |-> circular, missing |-> missing]
        ELSE [sorted |-> sort_queue(dependencies,
                            SelectSeq(SortTasks, LAMBDA t : Len(dependencies[t]) = 0),
                            [t \in Range(SortTasks) |-> Len(dependencies[t])], <<>>),
              circular |-> <<>>, missing |-> {}]

InitSort ==
    /\ \E d \in [Range(SortTasks) -> SUBSET Range(SortRefs)] :
          plan = [tasks |-> SortTasks,
                  dependencies |-> [t \in Range(SortTasks) |->
                                       SelectSeq(SortRefs, LAMBDA r : r \in d[t])]]
    /\ \E nodes \in [1..Len(SortTasks) -> Range(SortTasks)] :
          /\ \A i, j \in 1..Len(SortTasks) : i # j => nodes[i] # nodes[j]
          /\ pf = [NoInput EXCEPT !.arg = nodes]
    /\ file = [tasks |-> <<>>]
    /\ mem = file
    /\ runner = RunnerOff
    /\ obs = NoObs
    /\ db = IdleDispatch
    /\ env = [faults |-> 0]

TopologicalSort ==
    /\ ~pf.done
    /\ pf' = [pf EXCEPT !.out = topological_sort(plan.dependencies, pf.arg),
                        !.done = TRUE]
    /\ UNCHANGED <<plan, file, mem, db, runner, obs, env>>

SpecSort == InitSort /\ [][TopologicalSort]_vars

\* the tasks that reach themselves along dependencies on tasks of the list
C22_OnCycle ==
    LET step(S) == S \cup {<<a, c>> \in Range(SortTasks) \X Range(SortTasks) :
                              \E b \in Range(SortTasks) : <<a, b>> \in S /\ <<b, c>> \in S}
        direct == {<<a, b>> \in Range(SortTasks) \X Range(SortTasks) :
                      b \in Range(plan.dependencies[a])}
        closure == step(step(direct))
    IN  {t \in Range(SortTasks) : <<t, t>> \in closure}

C22_Missing ==
    {t \in Range(SortTasks) : "4" \in Range(plan.dependencies[t])}

C22_Ring ==
    plan.dependencies = [t \in Range(SortTasks) |->
                            CASE t = "1" -> <<"2">> [] t = "2" -> <<"3">> [] OTHER -> <<"1">>]

\* C22: when the dependency data holds a cycle or names a missing task,
\* topological_sort returns an empty ordering with the circular errors (each
\* starting and ending at the same id) and the missing errors, never a partial
\* ordering; for the ring 1 -> 2 -> 3 -> 1 exactly one circular error is
\* reported.
C22_InvalidDependenciesGiveNoOrdering ==
    pf.done =>
        /\ (C22_OnCycle # {} \/ C22_Missing # {}) => pf.out.sorted = <<>>
        /\ C22_OnCycle # {} =>
              /\ pf.out.circular # <<>>
              /\ \A i \in 1..Len(pf.out.circular) :
                    LET c == pf.out.circular[i]
                    IN  Len(c) >= 2 /\ c[1] = c[Len(c)]
        /\ {e.task_id : e \in pf.out.missing} = C22_Missing
        /\ C22_Ring => Len(pf.out.circular) = 1
        /\ (C22_OnCycle = {} /\ C22_Missing = {}) =>
              /\ pf.out.circular = <<>>
              /\ Range(pf.out.sorted) = Range(SortTasks)

C22_Witness ==
    /\ pf.done
    /\ C22_Ring
    /\ pf.out.sorted = <<>>
    /\ Len(pf.out.circular) = 1

-----------------------------------------------------------------------------
(* the ticks of the loop: dispatch_batch, dispatch_reviews and              *)
(* consolidate_reviews run again and again on a state file in which one     *)
(* dispatch unit has just been reviewed with a major finding.               *)

\* the state file after units "1" and "2" were dispatched together: unit `u`
\* (with its subtasks) is reviewed as major and waits for consolidation, the
\* units of `completed` are through review, a unit in neither failed and is
\* not_started again
ReviewedMajorState(u, completed) ==
    LET unit(t) == IF parent_id(t) = NoTask THEN t ELSE parent_id(t)
    IN  [InitialState(InitialOwners) EXCEPT
            !.status = [t \in TaskIds |->
                          IF unit(t) = u THEN "final_review"
                          ELSE IF unit(t) \in completed THEN "completed"
                          ELSE "not_started"],
            !.target_window = [t \in TaskIds |-> t \in {"1", "2"}],
            !.review_findings = [t \in TaskIds |->
                          IF t = u THEN <<[severity |-> "major", task_id |-> t]>>
                          ELSE IF t \in completed
                          THEN <<[severity |-> "minor", task_id |-> t]>>
                          ELSE <<>>],
            !.final_reports = [t \in TaskIds |->
                          IF t \in completed
                          THEN <<[task_id |-> t, overall_severity |-> "minor"]>>
                          ELSE <<>>]]

TickStates ==
    {ReviewedMajorState("2", {"1"}), ReviewedMajorState("2", {}),
     ReviewedMajorState("1", {"2"})}

InitTicks ==
    /\ plan \in Plans
    /\ file \in TickStates
    /\ mem = file
    /\ db = IdleDispatch
    /\ runner = RunnerOff
    /\ obs = NoObs
    /\ env = [faults |-> 0]
    /\ pf = NoInput

NextTicks ==
    \/ DispatchBatch
    \/ DB_Step
    \/ DispatchReviews
    \/ ConsolidateReviews

\* every tick is run again and again, and a tick that was begun is carried
\* through
SpecTicks ==
    /\ InitTicks
    /\ [][NextTicks]_vars
    /\ WF_vars(DispatchBatch)
    /\ WF_vars(DB_Step)
    /\ WF_vars(DispatchReviews)
    /\ WF_vars(ConsolidateReviews)

\* unit u has been through a successful fix and every finding reported since
\* the review that sent it to the fix loop is minor
C23_FixPassedReview(u) ==
    /\ file.status[u] = "final_review"
    /\ file.fix_attempts[u] > 0
    /\ Len(file.review_findings[u]) >= 2
    /\ \A i \in 2..Len(file.review_findings[u]) :
          file.review_findings[u][i].severity = "minor"

\* C23: a dispatch unit that entered the fix loop, whose fix dispatch
\* succeeded and whose re-review reports no critical or major finding,
\* eventually reaches completed under repeated ticks.
C23_FixedUnitCompletes ==
    \A u \in {"1", "2"} : C23_FixPassedReview(u) ~> (file.status[u] = "completed")

\* the run leaves the case of C24 for unit u: a dispatch or review call
\* failed, a re-review reported a minor finding, or a re-review reported
\* no finding at all
C24_Deviates(u) ==
    \/ env.faults > 0
    \/ \E i \in 1..Len(file.review_findings[u]) :
          file.review_findings[u][i].severity = "minor"
    \/ /\ file.status[u] \in {"under_review", "final_review"}
       /\ Len(file.review_findings[u]) <= file.fix_attempts[u]

\* C24: when every fix dispatch of a unit succeeds and every re-review again
\* reports a major finding, the unit ends in human fallback (blocked, with a
\* pending decision) instead of resting in a review status.
C24_RepeatedMajorEndsInHumanFallback ==
    \A u \in {"1", "2"} :
        (file.status[u] = "fix_required" /\ file.fix_attempts[u] = 0)
            ~> \/ C24_Deviates(u)
               \/ /\ file.status[u] = "blocked"
                  /\ \E i \in 1..Len(file.pending_decisions) :
                        file.pending_decisions[i].task_id = u

\* task t, blocked for the fix loop of unit u, is not_started again some time
\* after the fix of u has passed review
C25_Released(t, u) ==
    (/\ file.status[t] = "blocked"
     /\ file.blocked_by[t] = u
     /\ C23_FixPassedReview(u))
        ~> (file.status[t] = "not_started")

\* C25: a task blocked because an upstream unit entered the fix loop returns
\* to not_started once the upstream unit's fix has passed review; in the plan
\* subtask "1.2" depends on unit "2", and unit "3" on a subtask of unit "1".
C25_BlockedDependentsReleased ==
    C25_Released("1.2", "2") /\ C25_Released("3", "1")

-----------------------------------------------------------------------------
(* fix_loop.py: enter_fix_loop on plans in which dependents name a unit, a  *)
(* subtask or a parent. pf.arg keeps the statuses before the call, pf.out   *)
(* the failing task.                                                        *)

\* the dependency lists of the plans drawn
BlockPlans ==
    {[deps |-> [NoDeps EXCEPT !["2"] = d2, !["3"] = d3, !["1.2"] = d12],
      optional |-> {}, writes |-> NoFiles, reads |-> NoFiles,
      criticality |-> Criticality] :
        d2 \in {{}, {"1"}, {"1.1"}}, d3 \in {{}, {"2"}, {"1"}, {"1.2"}},
        d12 \in {{}, {"1.1"}}}

InitBlock ==
    /\ plan \in BlockPlans
    /\ \E u \in {"1", "2"},
          st \in [TaskIds -> {"not_started", "completed", "blocked"}] :
          /\ \A t \in TaskIds :
                parent_id(t) # NoTask /\ parent_id(t) # u => st[t] = st[parent_id(t)]
          /\ file = [InitialState(InitialOwners) EXCEPT
                        !.status = [t \in TaskIds |->
                                      IF t = u \/ parent_id(t) = u
                                      THEN "final_review" ELSE st[t]],
                        !.review_findings[u] =
                            <<[severity |-> "major", task_id |-> u]>>]
          /\ pf = [NoInput EXCEPT !.out = u]
    /\ mem = file
    /\ runner = RunnerOff
    /\ obs = NoObs
    /\ db = IdleDispatch
    /\ env = [faults |-> 0]

\* consolidate_reviews finds the major finding of unit pf.out and calls
\* enter_fix_loop
EnterFixLoop ==
    /\ ~pf.done
    /\ file' = enter_fix_loop(file, pf.out, file.review_findings[pf.out])
    /\ mem' = file'
    /\ pf' = [pf EXCEPT !.arg = file.status, !.done = TRUE]
    /\ UNCHANGED <<plan, db, runner, obs, env>>

SpecBlock == InitBlock /\ [][EnterFixLoop]_vars

\* the leaves a dependency stands for: itself, or the subtasks below a parent
C26_Leaves(d) == IF subtasks(d) = {} THEN {d} ELSE subtasks(d)

\* t names x in its dependencies, by its own id or as a leaf of a parent
C26_Names(t, x) ==
    \E d \in plan.deps[t] : d = x \/ x \in C26_Leaves(d)

\* the tasks that depend on x directly or through other tasks
C26_Dependents(x) ==
    LET step(S) == S \cup {t \in TaskIds : \E y \in S : C26_Names(t, y)}
    IN  step(step(step({t \in TaskIds : C26_Names(t, x)})))

\* C26: when a task enters the fix loop, every task that depends on it
\* directly or transitively and was neither completed nor blocked becomes
\* blocked with blocked_by naming the failing task, also when the failing
\* task is a parent that its dependents name by the parent id.
C26_DependentsBlocked ==
    pf.done =>
        \A t \in C26_Dependents(pf.out) :
            pf.arg[t] \notin {"completed", "blocked"} =>
                /\ file.status[t] = "blocked"
                /\ file.blocked_by[t] = pf.out

-----------------------------------------------------------------------------
(* spec_parser.py: the transition table, against the status changes the     *)
(* calls write to the state file                                            *)

VALID_TRANSITIONS ==
    [s \in Statuses |->
        CASE s = "not_started" -> {"in_progress", "blocked"}
          [] s = "in_progress" -> {"pending_review", "blocked"}
          [] s = "pending_review" -> {"under_review", "blocked"}
          [] s = "under_review" -> {"final_review", "fix_required", "blocked"}
          [] s = "fix_required" -> {"in_progress", "blocked"}
          [] s = "final_review" -> {"completed", "blocked"}
          [] s = "completed" -> {}
          [] OTHER -> {"not_started", "in_progress", "fix_required"}]

validate_transition(from_status, to_status) ==
    to_status \in VALID_TRANSITIONS[from_status]

\* two permitted changes one call applies in a row before it saves: a
\* dispatch sets in_progress and then pending_review, a review sets
\* under_review and then final_review
C27_WithinOneCall(from_status, to_status) ==
    \/ from_status \in {"not_started", "fix_required"} /\ to_status = "pending_review"
    \/ from_status = "pending_review" /\ to_status = "final_review"

\* C27: every status change written to the state file is a transition of
\* VALID_TRANSITIONS (or two of them applied in a row by one call); no task
\* leaves completed, and final_review only moves to completed or blocked.
C27_OnlyValidTransitions ==
    [][\A t \in TaskIds :
          file'.status[t] # file.status[t] =>
              \/ validate_transition(file.status[t], file'.status[t])
              \/ C27_WithinOneCall(file.status[t], file'.status[t])]_vars

-----------------------------------------------------------------------------
(* run_loop_deterministic when nothing goes wrong: acyclic plans without    *)
(* optional units, every unit with an owner, every wrapper call clean and   *)
(* every review reporting the required number of findings, all of severity  *)
(* none.                                                                    *)

\* acyclic plans whose dependency chains are two units long at most
HappyPlans ==
    {[deps |-> [NoDeps EXCEPT !["2"] = d2, !["3"] = d3, !["1.2"] = d12],
      optional |-> {}, writes |-> NoFiles, reads |-> NoFiles,
      criticality |-> Criticality] :
        d2 \in {{}, {"1"}, {"1.1"}}, d3 \in {{}, {"1"}, {"1.2"}},
        d12 \in {{}, {"1.1"}}}

\* the findings of the reviewers of one task
RECURSIVE clean_findings(_, _)
clean_findings(t, n) ==
    IF n = 0 THEN <<>>
    ELSE <<[task_id |-> t, severity |-> "none"]>> \o clean_findings(t, n - 1)

RECURSIVE clean_review_results(_)
clean_review_results(tasks) ==
    IF tasks = <<>> THEN <<>>
    ELSE clean_findings(Head(tasks), get_review_count(Head(tasks)))
            \o clean_review_results(Tail(tasks))

CleanReviewReports(tasks) ==
    {[success |-> TRUE, review_results |-> clean_review_results(tasks)]}

InitHappy ==
    /\ plan \in HappyPlans
    /\ file = apply_assignments(InitialState(InitialOwners), dispatch_units)
    /\ mem = file
    /\ db = IdleDispatch
    /\ runner = RunnerOff
    /\ obs = NoObs
    /\ env = [faults |-> MaxFaults]
    /\ pf = NoInput

Happy_Start == Run_Start /\ runner'.mode = "deterministic"

\* the call of dispatch_reviews.py, answered with clean findings
Happy_Reviews ==
    /\ runner.pc = "dispatching"
    /\ db.pc = "idle"
    /\ obs.result # "missing_fields" \/ runner.retried
    /\ DR_RunWith(CleanReviewReports(get_tasks_pending_review(file)))
    /\ runner' = [runner EXCEPT !.pc = "consolidate"]

NextHappy ==
    \/ Happy_Start
    \/ Det_IterTop
    \/ Det_CallDispatch
    \/ DB_Ready
    \/ DB_BatchInvoke
    \/ DB_BatchReturn
    \/ DB_BatchReconcile
    \/ DB_BatchSave
    \/ DB_Finish
    \/ Happy_Reviews
    \/ Det_Consolidate
    \/ Det_Check

\* the runner is one sequential process: it takes its next step; no task is
\* ever fix_required here, so the fix steps of dispatch_batch do not occur
SpecHappy == InitHappy /\ [][NextHappy]_vars /\ WF_vars(NextHappy)

-----------------------------------------------------------------------------
(* fix_attempts across the steps of dispatch_batch and of the other scripts *)

\* a step that drains the fix loop: the state file is loaded and
\* process_fix_loop runs on it
C29_Drains == db.pc = "idle" /\ db'.pc \in {"fix_invoke", "ready"}

\* a step in which the wrapper returns from a fix invocation
C29_FixReturns == db.pc = "fix_wait" /\ db'.pc # "fix_wait"

\* C29: fix_attempts changes only when a fix dispatch succeeds: a successful
\* fix dispatch increments the task's counter by exactly one and moves the
\* task to pending_review; draining the fix loop marks the requested tasks
\* in_progress and leaves the counters as loaded; a failed fix dispatch
\* returns the task to fix_required and leaves the counters unchanged; no
\* other step changes a counter, in memory or in the state file
C29_FixAttemptsOnlyOnFixSuccess ==
    [][/\ C29_Drains =>
            /\ mem'.fix_attempts = file.fix_attempts
            /\ file' = file
            /\ \A i \in 1..Len(db'.fix_requests) :
                  mem'.status[db'.fix_requests[i].task_id] = "in_progress"
       /\ C29_FixReturns =>
            LET task_id == Head(db.fix_requests).task_id
            IN  /\ IF db'.fix_dispatched = db.fix_dispatched + 1
                   THEN /\ mem'.fix_attempts =
                              [mem.fix_attempts EXCEPT ![task_id] = @ + 1]
                        /\ mem'.status[task_id] = "pending_review"
                   ELSE /\ mem'.fix_attempts = mem.fix_attempts
                        /\ mem'.status[task_id] = "fix_required"
                /\ file'.fix_attempts \in {file.fix_attempts, mem'.fix_attempts}
       /\ ~C29_Drains /\ ~C29_FixReturns =>
            /\ mem'.fix_attempts = mem.fix_attempts
            /\ file'.fix_attempts = file.fix_attempts]_vars

\* one drain produced two fix requests; the first dispatch failed and the
\* second succeeded
C29_Witness ==
    /\ db.pc = "ready"
    /\ db.fix_dispatched = 1
    /\ ~db.overall_success
    /\ \E t, u \in TaskIds :
          /\ mem.status[t] = "fix_required"
          /\ mem.status[u] = "pending_review"
          /\ mem.fix_attempts[u] >= 1
          /\ file = mem

-----------------------------------------------------------------------------
(* human fallback: the pending decisions process_fix_loop records *)

\* the pending decisions of state s that trigger_human_fallback recorded
\* for task t (id "human-fallback-<t>")
human_fallback_decisions(s, t) ==
    {i \in 1..Len(s.pending_decisions) :
        s.pending_decisions[i] = [id |-> "human-fallback", task_id |-> t]}

\* C30: draining the fix loop for a fix_required task with three or more
\* fix attempts emits no fix request for it and leaves it blocked with
\* reason human_intervention_required, and the state holds exactly one
\* human-fallback decision for that task after this and every later drain
C30_HumanFallbackOnce ==
    [][C29_Drains =>
         \A t \in TaskIds :
            /\ (file.status[t] = "fix_required"
                  /\ file.fix_attempts[t] >= MAX_FIX_ATTEMPTS) =>
                 /\ \A i \in 1..Len(db'.fix_requests) :
                       db'.fix_requests[i].task_id # t
                 /\ mem'.status[t] = "blocked"
                 /\ mem'.blocked_reason[t] = "human_intervention_required"
                 /\ Cardinality(human_fallback_decisions(mem', t)) = 1
            /\ human_fallback_decisions(file, t) # {} =>
                 Cardinality(human_fallback_decisions(mem', t)) = 1]_vars

\* a dispatch_batch run has drained the fix loop again, with nothing left
\* to fix, on a state file that already held the human-fallback decision
\* of a task with three fix attempts
C30_Witness ==
    /\ db.pc = "ready"
    /\ db.fix_dispatched = 0
    /\ db.overall_success
    /\ \E t \in TaskIds :
          /\ human_fallback_decisions(file, t) # {}
          /\ file.fix_attempts[t] >= MAX_FIX_ATTEMPTS
          /\ mem.status[t] = "blocked"
          /\ mem.blocked_reason[t] = "human_intervention_required"
          /\ Cardinality(human_fallback_decisions(mem, t)) = 1

-----------------------------------------------------------------------------
(* units under review across the ticks of a fresh run *)

\* a fresh state file in which every dispatch unit has its owner and window
InitFresh ==
    /\ plan \in Plans
    /\ file = apply_assignments(InitialState(InitialOwners), dispatch_units)
    /\ mem = file
    /\ db = IdleDispatch
    /\ runner = RunnerOff
    /\ obs = NoObs
    /\ env = [faults |-> 0]
    /\ pf = NoInput

\* every tick is run again and again, and a tick that was begun is carried
\* through
SpecFresh ==
    /\ InitFresh
    /\ [][NextTicks]_vars
    /\ WF_vars(DispatchBatch)
    /\ WF_vars(DB_Step)
    /\ WF_vars(DispatchReviews)
    /\ WF_vars(ConsolidateReviews)

\* C31: every dispatch unit that enters under_review eventually leaves it,
\* also when the successful review invocation returned fewer findings for it
\* than its required reviewer count, or none; stated for the standalone
\* unit "2"
C31_UnderReviewIsLeft ==
    (file.status["2"] = "under_review") ~> (file.status["2"] # "under_review")


\* C32: after a fix attempt a unit is promoted to final_review only on
\* findings recorded after that fix: the review invocation that takes a
\* fixed unit from pending_review to final_review records at least its
\* required number of findings for it
C32_PromotedOnFreshFindings ==
    [][\A u \in dispatch_units :
          (/\ file.fix_attempts[u] > 0
           /\ file.status[u] = "pending_review"
           /\ file'.status[u] = "final_review") =>
             Len(file'.review_findings[u]) - Len(file.review_findings[u])
                >= get_review_count(u)]_vars

-----------------------------------------------------------------------------
(* a batch whose wrapper invocation reported failure *)

\* batch n is reconciled in this step and its invocation had failed
C33_FailedBatchReconciled(n) ==
    /\ db.pc = "batches"
    /\ n \in 1..Len(db.batches)
    /\ db.phase[n] = "returned"
    /\ db'.phase[n] = "reconciled"
    /\ ~db.reports[n].success

\* the results that arrived for unit u in the report of batch n
C33_ResultsOf(n, u) ==
    LET results == db.reports[n].task_results
    IN  {results[i] : i \in {j \in 1..Len(results) : results[j].task_id = u}}

-----------------------------------------------------------------------------
(* get_dispatchable_units_from_state on the nested plan *)

nested_is_dispatch_unit(t) ==
    nested_subtasks(t) # {} \/ nested_parent_id(t) = NoTask

RECURSIVE nested_expand_dependencies(_)
nested_expand_dependencies(deps) ==
    UNION { IF nested_subtasks(d) # {}
            THEN nested_expand_dependencies(nested_subtasks(d))
            ELSE {d} : d \in deps }

\* the ids of the ready units of the nested plan with statuses st and
\* dependencies deps, in strict mode
nested_dispatchable_units(st, deps) ==
    LET completed == {t \in NestedIds : st[t] = "completed"}
    IN  {t \in NestedIds :
            /\ nested_is_dispatch_unit(t)
            /\ t \notin completed
            /\ st[t] = "not_started"
            /\ nested_expand_dependencies(deps[t]) \subseteq completed}

\* the tasks above t in the plan
RECURSIVE nested_ancestors(_)
nested_ancestors(t) ==
    IF nested_parent_id(t) = NoTask THEN {}
    ELSE {nested_parent_id(t)} \cup nested_ancestors(nested_parent_id(t))

\* the dependencies declared in the nested plan
NestedDeps ==
    {[t \in NestedIds |-> {}],
     [t \in NestedIds |-> IF t = "1.2" THEN {"1.1"} ELSE {}]}

InitNested ==
    /\ plan \in Plans
    /\ file = InitialState(InitialOwners)
    /\ mem = file
    /\ db = IdleDispatch
    /\ runner = RunnerOff
    /\ obs = NoObs
    /\ env = [faults |-> 0]
    /\ \E st \in [NestedIds -> Statuses], d \in NestedDeps :
          pf = [NoInput EXCEPT !.arg = [status |-> st, deps |-> d]]

SelectNested ==
    /\ ~pf.done
    /\ pf' = [pf EXCEPT
                !.out = nested_dispatchable_units(pf.arg.status, pf.arg.deps),
                !.done = TRUE]
    /\ UNCHANGED <<plan, file, mem, db, runner, obs, env>>

SpecNested == InitNested /\ [][SelectNested]_vars

\* C34: no two units selected for dispatch in one tick are in an
\* ancestor-descendant relation
C34_NoUnitBesideItsAncestor ==
    pf.done =>
        \A a \in pf.out : \A b \in pf.out : a \notin nested_ancestors(b)

-----------------------------------------------------------------------------
(* dispatch_batch on a wide plan: standalone units 1..n without             *)
(* dependencies or file manifests, each with its owner; file holds the      *)
(* status and the target_window flag of every unit                          *)

WidePlans ==
    UNION {{[status |-> [u \in 1..n |-> "not_started"],
             target_window |-> [u \in 1..n |-> u \in W]] : W \in SUBSET (1..n)} :
           n \in 1..MaxReady}

\* get_dispatchable_units_from_state: the not_started units in task order
wide_ready_units(s) ==
    SelectSeq([u \in 1..Len(s.status) |-> u],
              LAMBDA u : s.status[u] = "not_started")

wide_apply_window_allocation(s, units) ==
    LET window_mapping == allocate_windows(units, MAX_WINDOWS)
    IN  [s EXCEPT !.target_window =
            [u \in DOMAIN @ |-> @[u] \/ (u \in Range(units) /\ u \in window_mapping)]]

\* the ids find_missing_dispatch_fields reports
wide_missing_dispatch_fields(s, units) ==
    {u \in Range(units) : ~s.target_window[u]}

InitWide ==
    /\ plan \in Plans
    /\ file \in WidePlans
    /\ mem = file
    /\ db = IdleDispatch
    /\ runner = RunnerOff
    /\ obs = NoObs
    /\ env = [faults |-> 0]
    /\ pf = NoInput

\* one call of dispatch_batch with a wrapper that completes every task: on
\* missing fields it returns before anything is dispatched or saved
WideDispatchBatch ==
    /\ LET ready_tasks == wide_ready_units(file)
           windowed == wide_apply_window_allocation(file, ready_tasks)
           missing_fields == wide_missing_dispatch_fields(windowed, ready_tasks)
       IN  /\ ready_tasks # <<>>
           /\ IF missing_fields # {}
              THEN /\ file' = file
                   /\ obs' = [NoObs EXCEPT !.op = "dispatch_batch",
                                           !.result = "missing_fields"]
              ELSE /\ file' = [windowed EXCEPT !.status =
                          [u \in DOMAIN @ |->
                              IF u \in Range(ready_tasks)
                              THEN "pending_review" ELSE @[u]]]
                   /\ obs' = [NoObs EXCEPT !.op = "dispatch_batch",
                                           !.result = "dispatched",
                                           !.invoked = Range(ready_tasks)]
    /\ mem' = file'
    /\ UNCHANGED <<plan, db, runner, env, pf>>

\* dispatch_batch is called again and again
SpecWide == InitWide /\ [][WideDispatchBatch]_vars /\ WF_vars(WideDispatchBatch)

\* C35: when more units than max_windows are ready and none has a
\* target_window yet, every ready unit is eventually dispatched
C35_EveryReadyUnitDispatched ==
    (/\ Len(file.status) > MAX_WINDOWS
     /\ \A u \in DOMAIN file.status :
           file.status[u] = "not_started" /\ ~file.target_window[u])
    ~> (\A u \in DOMAIN file.status : file.status[u] # "not_started")

-----------------------------------------------------------------------------
(* the loop runner on plans that hold an optional dispatch unit *)

OptionalPlans ==
    {[deps |-> d, optional |-> {o}, writes |-> NoFiles, reads |-> NoFiles,
      criticality |-> Criticality] :
        d \in {NoDeps, [NoDeps EXCEPT !["1.2"] = {"2"}, !["3"] = {"1.1"}]},
        o \in dispatch_units}

InitOptional ==
    /\ plan \in OptionalPlans
    /\ file = InitialState(InitialOwners)
    /\ mem = file
    /\ db = IdleDispatch
    /\ runner = RunnerOff
    /\ obs = NoObs
    /\ env = [faults |-> 0]
    /\ pf = NoInput

SpecOptional == InitOptional /\ [][NextLoop]_vars

\* C36: an optional dispatch unit that starts not_started is never handed to
\* the wrapper and never becomes completed, and the loop runner never returns
\* 0 for a task set that holds one
C36_OptionalUnitKeepsRunnerFromZero ==
    /\ \A u \in plan.optional :
          /\ u \notin wrapper_input
          /\ obs.op = "dispatch_batch" => u \notin obs.invoked
          /\ file.status[u] # "completed"
          /\ mem.status[u] # "completed"
    /\ runner.pc = "done" => runner.exit_code # 0

\* a run has ended with exit code 1 with every unit completed but the
\* optional one, which is still not_started
C36_Witness ==
    /\ runner.pc = "done"
    /\ runner.exit_code = 1
    /\ \A u \in dispatch_units :
          file.status[u] = IF u \in plan.optional THEN "not_started" ELSE "completed"

-----------------------------------------------------------------------------
(* long deterministic runs: clean wrapper calls, an iteration budget that   *)
(* leaves room for stagnation, unit "3" waiting for its owner or optional   *)

LongRunPlans ==
    {[deps |-> d, optional |-> o, writes |-> NoFiles, reads |-> NoFiles,
      criticality |-> Criticality] :
        d \in {NoDeps, [NoDeps EXCEPT !["1.2"] = {"2"}]},
        o \in {{}, {"3"}, {"2"}}}

InitLongRun ==
    /\ plan \in LongRunPlans
    /\ file = InitialState(InitialOwners)
    /\ mem = file
    /\ db = IdleDispatch
    /\ runner = RunnerOff
    /\ obs = NoObs
    /\ env = [faults |-> MaxFaults]
    /\ pf = NoInput

\* main with --mode deterministic and --max-iterations MaxLongRun
LongRun_Start ==
    /\ runner.pc = "off"
    /\ db.pc = "idle"
    /\ \E assigned \in SUBSET missing_owner_agents(file) :
          file' = ensure_assignments(file, assigned)
    /\ runner' = [RunnerOff EXCEPT !.pc = "iter_top",
                                   !.mode = "deterministic",
                                   !.max_iterations = MaxLongRun,
                                   !.runs = 1]
    /\ mem' = file'
    /\ obs' = NoObs
    /\ UNCHANGED <<plan, env, db, pf>>

NextLongRun ==
    \/ LongRun_Start
    \/ Det_IterTop
    \/ Det_CallDispatch
    \/ Det_Retry
    \/ DB_Ready
    \/ DB_BatchInvoke
    \/ DB_BatchReturn
    \/ DB_BatchReconcile
    \/ DB_BatchSave
    \/ DB_Finish
    \/ Happy_Reviews
    \/ Det_Consolidate
    \/ Det_Check

SpecLongRun == InitLongRun /\ [][NextLongRun]_vars

\* the step that ends an iteration without a pending decision and with
\* incomplete units left
C37_IterationEnds ==
    /\ runner.pc = "check"
    /\ runner'.pc # "check"
    /\ pending_decisions(file) = <<>>
    /\ dispatch_unit_completion(file)[1] > 0

-----------------------------------------------------------------------------
\* C38: in the sequential runner a failed result neither stops the run nor
\* changes the completed list; the same unit is selected again in the next
\* iteration, and when the budget is used up after a failure the run
\* returns 1
C38_FailedUnitIsRetried ==
    [][/\ (runner.pc = "dispatch" /\ obs'.result = "failed") =>
            /\ runner'.pc = "top"
            /\ runner'.iteration = runner.iteration + 1
            /\ runner'.completed_ids = runner.completed_ids
            /\ file'.completed = file.completed
            /\ get_next_dispatch_unit(runner'.completed_ids) = runner.next_task
       /\ (runner.pc = "top" /\ obs.result = "failed") =>
            IF runner.iteration <= runner.max_iterations
            THEN /\ runner'.pc = "dispatch"
                 /\ runner'.next_task = obs.task_id
            ELSE /\ runner'.pc = "done"
                 /\ runner'.exit_code = 1]_vars

\* a fresh run whose unit failed in each of its three iterations has
\* returned 1 with nothing completed
C38_Witness ==
    /\ runner.pc = "done"
    /\ runner.exit_code = 1
    /\ runner.max_iterations = MaxSeqIterations
    /\ runner.iteration = runner.max_iterations + 1
    /\ obs.result = "failed"
    /\ runner.completed_ids = <<>>
    /\ file.completed = <<>>

-----------------------------------------------------------------------------
\* C39: every circular-dependency error describes a genuine cycle: its
\* sequence starts and ends at the same task id and each id in it declares a
\* dependency on the id that follows it, for every graph and every order in
\* which the nodes are visited
C39_ReportedCyclesAreGenuine ==
    pf.done =>
        \A i \in 1..Len(pf.out.circular) :
            LET c == pf.out.circular[i]
            IN  /\ Len(c) >= 2
                /\ c[1] = c[Len(c)]
                /\ \A k \in 1..(Len(c) - 1) :
                      c[k + 1] \in Range(plan.dependencies[c[k]])
-----------------------------------------------------------------------------
(* sync_pulse.py: the Cognitive Load Warnings of the Risks & Debt section   *)
(* through repeated syncs. file is the agent state (status of three tasks   *)
(* and the blocked_items list), mem the Risks & Debt section of the PULSE   *)
(* document. A string is the sequence of the pieces it is formatted from.   *)

WarnTasks == <<"1", "2", "3">>

\* task 2 depends on task 1 and task 3 on task 2: the transitive dependents
\* of each task as get_all_dependent_task_ids returns them
WarnDependents == [t \in Range(WarnTasks) |->
                     CASE t = "1" -> {"2", "3"}
                       [] t = "2" -> {"3"}
                       [] OTHER -> {}]

\* the reasons enter_fix_loop and trigger_human_fallback block with
WarnReasons == {"requires fixes", "requires human intervention"}

WarnDescription == "Task description"

\* the sign and the word every blocked warning starts with
BlockedPrefix == "(sign) BLOCKED: "

\* format_blocked_item: "[task_id] reason" and the resolution when present
format_blocked_item(item) ==
    <<"[", item.task_id, "] ", item.blocking_reason>>
        \o (IF item.required_resolution # ""
            THEN <<" (Resolution: ", item.required_resolution, ")">>
            ELSE <<>>)

\* the first loop of build_risks_and_debt: the membership test is on the
\* formatted item, the line appended is the prefix followed by it
RECURSIVE warn_blocked_items(_, _)
warn_blocked_items(cognitive_warnings, blocked_items) ==
    IF blocked_items = <<>> THEN cognitive_warnings
    ELSE LET formatted == format_blocked_item(Head(blocked_items))
         IN  warn_blocked_items(
                IF formatted \notin Range(cognitive_warnings)
                THEN Append(cognitive_warnings, <<BlockedPrefix>> \o formatted)
                ELSE cognitive_warnings,
                Tail(blocked_items))

\* the second loop: tasks of status blocked without a blocked_items entry
RECURSIVE warn_blocked_tasks(_, _, _)
warn_blocked_tasks(cognitive_warnings, agent_state, i) ==
    IF i > Len(WarnTasks) THEN cognitive_warnings
    ELSE LET task_id == WarnTasks[i]
             blocked_task_ids == {agent_state.blocked_items[k].task_id :
                                    k \in 1..Len(agent_state.blocked_items)}
             warning == <<BlockedPrefix, "[", task_id, "] ", WarnDescription>>
         IN  warn_blocked_tasks(
                IF /\ agent_state.status[task_id] = "blocked"
                   /\ task_id \notin blocked_task_ids
                   /\ warning \notin Range(cognitive_warnings)
                THEN Append(cognitive_warnings, warning)
                ELSE cognitive_warnings,
                agent_state, i + 1)

\* the agent states here hold no deferred_fixes and no pending_decisions
build_risks_and_debt(agent_state, existing_risks) ==
    [cognitive_warnings |->
        warn_blocked_tasks(
            warn_blocked_items(existing_risks.cognitive_warnings,
                               agent_state.blocked_items),
            agent_state, 1),
     technical_debt |-> existing_risks.technical_debt,
     pending_decisions |-> <<>>]

InitWarnings ==
    /\ file = [status |-> [t \in Range(WarnTasks) |-> "in_progress"],
               blocked_items |-> <<>>]
    /\ mem = [cognitive_warnings |-> <<>>, technical_debt |-> <<>>,
              pending_decisions |-> <<>>]
    /\ pf = NoInput
    /\ obs = NoObs
    /\ plan \in Plans
    /\ db = IdleDispatch
    /\ runner = RunnerOff
    /\ env = [faults |-> 0]

\* block_dependent_tasks: the dependents of task_id that are neither
\* completed nor blocked become blocked and one entry is appended to
\* blocked_items
Warn_BlockDependents ==
    /\ Len(file.blocked_items) < MaxBlockedItems
    /\ \E task_id \in Range(WarnTasks), reason \in WarnReasons :
          file' = [status |-> [t \in Range(WarnTasks) |->
                                 IF /\ t \in WarnDependents[task_id]
                                    /\ file.status[t] \notin {"completed", "blocked"}
                                 THEN "blocked" ELSE file.status[t]],
                   blocked_items |->
                       Append(file.blocked_items,
                              [task_id |-> task_id, blocking_reason |-> reason,
                               required_resolution |-> ""])]
    /\ obs' = [NoObs EXCEPT !.op = "block_dependent_tasks"]
    /\ UNCHANGED <<plan, mem, db, runner, env, pf>>

\* sync_pulse on the PULSE document and the agent state
Warn_Sync ==
    /\ Len(mem.cognitive_warnings) < MaxWarnings
    /\ mem' = build_risks_and_debt(file, mem)
    /\ obs' = [NoObs EXCEPT !.op = "sync_pulse"]
    /\ UNCHANGED <<plan, file, db, runner, env, pf>>

NextWarnings == Warn_BlockDependents \/ Warn_Sync

SpecWarnings == InitWarnings /\ [][NextWarnings]_vars

\* the lines of the document that are the blocked warning of one item
C40_LinesOf(risks, item) ==
    Cardinality({k \in 1..Len(risks.cognitive_warnings) :
                   risks.cognitive_warnings[k]
                      = <<BlockedPrefix>> \o format_blocked_item(item)})

\* C40: pulse sync is idempotent on cognitive warnings: with a state that
\* holds one blocked_items entry, a sync on a document without a BLOCKED line
\* for the entry adds exactly one, and a sync that directly follows a sync of
\* the same state adds none.
C40_BlockedLineAddedOnce ==
    [][(obs'.op = "sync_pulse" /\ Len(file.blocked_items) = 1) =>
          /\ C40_LinesOf(mem, file.blocked_items[1]) = 0
                => C40_LinesOf(mem', file.blocked_items[1]) = 1
          /\ obs.op = "sync_pulse"
                => C40_LinesOf(mem', file.blocked_items[1])
                      = C40_LinesOf(mem, file.blocked_items[1])]_vars

=============================================================================
